---- MODULE Spec2Model ----
(***************************************************************************)
(* giftbridge: FundraiseUp -> Blackbaud donation sync.                     *)
(*                                                                         *)
(* Two parts of the program are modelled:                                  *)
(*   - internal/sync/service.go: the resumable batch runner (Run,          *)
(*     runFresh, runResume) and the per-donation pipeline                  *)
(*     (processDonation and its helpers), over a destination (Blackbaud)   *)
(*     holding constituents and gifts and a state store holding the        *)
(*     pending-id list and the last sync time;                             *)
(*   - internal/blackbaud/oauth.go: the tokenManager (AccessToken,         *)
(*     cachedToken, refreshAccessToken) called from several goroutines.    *)
(*                                                                         *)
(* Ids handed out by the destination are modelled as positive integers     *)
(* (the Go code has strings); 0 stands for the empty string / nil, and     *)
(* negative integers for the dry-run client's fake ids.                    *)
(***************************************************************************)
EXTENDS Integers, Sequences, FiniteSets, TLC

(* ------------------------------ bounds -------------------------------- *)
MaxConstituents == 3
MaxGifts == 4
MaxRuns == 2
MaxClock == 2
MaxFakeIDs == 3
MaxCallGifts == 2
cfgMaxDonationsPerRun == 3
NumCallers == 2
MaxTime == 2
MaxExchanges == 2

(* ------------------------- program constants -------------------------- *)
defaultMaxDonationsPerRun == 300
\* Token times are counted in units of five minutes.
tokenExpiryBuffer == 1
defaultTokenDuration == 12
defaultSyncDays == -30
originName == "FundraiseUp"
defaultType == "Donation"
GiftTypeRecurringGift == "RecurringGift"
GiftTypeRecurringGiftPayment == "RecurringGiftPayment"
GiftSubtypeRecurring == "Recurring"

(* ------------------------------ source -------------------------------- *)
\* The donations held by the source, oldest first.  Installment and Amount
\* are the strings the API returns; createdAt is in days.
Catalog ==
  << [id |-> "d4", hasSupporter |-> TRUE, email |-> "", recurringPlan |-> "",
      Installment |-> "", Amount |-> "50.00", createdAt |-> 1],
     [id |-> "d2", hasSupporter |-> TRUE, email |-> "a@x", recurringPlan |-> "s1",
      Installment |-> "1", Amount |-> "50.00", createdAt |-> 1],
     [id |-> "d3", hasSupporter |-> TRUE, email |-> "a@x", recurringPlan |-> "s1",
      Installment |-> "2", Amount |-> "50.00", createdAt |-> 1],
     [id |-> "d8", hasSupporter |-> TRUE, email |-> "a@x", recurringPlan |-> "",
      Installment |-> "", Amount |-> "invalid", createdAt |-> 2],
     [id |-> "d1", hasSupporter |-> TRUE, email |-> "a@x", recurringPlan |-> "",
      Installment |-> "", Amount |-> "25.50", createdAt |-> 2] >>

\* Donations a caller can hand to processDonation directly: the catalog plus
\* a donation with no supporter and recurring donations whose installment is
\* missing or later than the second.
Extra ==
  << [id |-> "d5", hasSupporter |-> FALSE, email |-> "", recurringPlan |-> "",
      Installment |-> "", Amount |-> "50.00", createdAt |-> 1],
     [id |-> "d6", hasSupporter |-> TRUE, email |-> "a@x", recurringPlan |-> "s1",
      Installment |-> "", Amount |-> "50.00", createdAt |-> 1],
     [id |-> "d7", hasSupporter |-> TRUE, email |-> "a@x", recurringPlan |-> "s2",
      Installment |-> "3", Amount |-> "50.00", createdAt |-> 1] >>

Range(s) == {s[i] : i \in 1..Len(s)}

Donations == Range(Catalog) \cup Range(Extra)

DonationByID(id) == CHOOSE d \in Donations : d.id = id

\* What can go wrong in one processDonation: one destination request fails,
\* or the destination client cannot obtain an access token ("auth"), which
\* fails every request.
Faults == {"none", "search", "createConstituent", "list", "createGift", "auth"}

\* What can go wrong in Run before the loop: a read of the state store, the
\* fetch from the source, the write of the pending list.
StoreFaults == {"none", "readPending", "readLastSync", "fetchSince", "setPending"}

VARIABLES
  \* destination (Blackbaud)
  constituents,   \* sequence of [id, email]
  gifts,          \* sequence of gift records, in creation order
  \* state store
  pending,        \* persisted pending donation ids
  lastSync,       \* persisted last sync time, 0 = zero time
  \* the running Service
  pc,             \* "idle" | "loop" | "remove" | "removeUnfetched" | "finish";
                  \* "removeWrite" = inside RemovePendingDonationID, after its read
  runErr,         \* the error the last Run returned, "" = nil
  fetchedSince,   \* the run called the since-based fetch of the source
  fetched,        \* ids of the donations that fetch returned, in order
  fetchedAt,      \* the instant of the last successful since-based fetch
  envFault,       \* a request of the run failed for a reason outside the program
  prevDry,        \* the last dry run that completed without such a failure:
                  \* its batch, the destination it ran against, its Result
  dryRun,
  mode,           \* "fresh" | "resume"
  todo,           \* donations of the batch not yet processed (ids)
  giftCache,      \* function: constituent id -> cached gift list
  fakeCounter,    \* dryRunClient.counter
  result,         \* *Result of the run
  outcome,        \* DonationResult of the last processDonation
  call,           \* what the last processDonation resolved and computed
  runs,           \* number of Run invocations so far
  clock,          \* wall clock, in days
  \* tokenManager
  accessToken,    \* cached access token, 0 = ""
  expiresAt,      \* expiry instant of the cached token
  mu,             \* holder of the write lock, 0 = free
  refreshToken,   \* the refresh token held by the token store
  tpc,            \* per caller: "idle" | "wantLock" | "exchange" | "done"
  sent,           \* per caller: the refresh token read from the store
  ret,            \* per caller: what AccessToken returned
  now,            \* time.Now()
  exchanges,      \* token requests answered so far
  saved,          \* per caller: the token handed to SaveRefreshToken, 0 = no call
  okNow,          \* successful exchanges at the current instant
  unusableNow,    \* some exchange at this instant returned a token that
                  \* is empty or already inside the expiry buffer
  \* findExistingGift and mapDonationToGift called on their own
  given,          \* the arguments at hand: a constituent's cached gift list
                  \* and a recurring context
  applied,        \* the last call: function, donation id, gift returned, error
  \* storage.StateStore called on its own
  parameter,      \* the SSM parameter of the pending list: whether it exists, its value
  storeCall,      \* the last call: method, argument, list read before, list returned, error
  \* two invocations of the handler at the same time
  parked,         \* the Service of the invocation that is not scheduled now
  readIDs         \* the list RemovePendingDonationID read and has not yet written back

syncVars == <<constituents, gifts, pending, lastSync, pc, runErr, fetchedSince,
              fetched, fetchedAt, envFault, prevDry, dryRun, mode, todo, giftCache, fakeCounter, result, outcome, call,
              runs, clock>>

tokenVars == <<accessToken, expiresAt, mu, refreshToken, tpc, sent, ret, now,
               exchanges, saved, okNow, unusableNow>>

fnVars == <<given, applied, parameter, storeCall>>

overlapVars == <<parked, readIDs>>

vars == <<syncVars, tokenVars, fnVars, overlapVars>>

(* ------------------------ fundraiseup/mapper.go ----------------------- *)
IsRecurring(d) == d.recurringPlan # ""

RecurringID(d) == d.recurringPlan

\* strconv.Atoi of the installment string; anything unparseable gives 0.
InstallmentNumber(d) ==
  CASE d.Installment = "1" -> 1
    [] d.Installment = "2" -> 2
    [] d.Installment = "3" -> 3
    [] OTHER -> 0

\* strconv.ParseFloat of the amount string, in hundredths; anything that
\* is not a decimal number is an error.
ParseFloat(s) ==
  CASE s = "50.00" -> [value |-> 5000, err |-> FALSE]
    [] s = "25.50" -> [value |-> 2550, err |-> FALSE]
    [] OTHER -> [value |-> 0, err |-> TRUE]

NoGift == [id |-> 0, constituentID |-> 0, externalID |-> "", lookupID |-> "",
           origin |-> <<>>, type |-> "", subtype |-> "", linkedGifts |-> <<>>,
           amount |-> 0, batchPrefix |-> "", isManual |-> FALSE,
           giftSplits |-> <<>>]

\* Donation.ToDomainType: the donation-specific gift fields, or an error and
\* no gift when the amount does not parse.
ToDomainType(d) ==
  IF ParseFloat(d.Amount).err
  THEN [gift |-> NoGift, err |-> "parsing amount"]
  ELSE [gift |-> [NoGift EXCEPT !.externalID = d.id,
                                !.amount = ParseFloat(d.Amount).value],
        err |-> ""]

(* -------------------------- blackbaud types --------------------------- *)
\* GiftOrigin.String: the JSON object, as its sequence of keys and values.
OriginString(o) == <<"donation_id", o.DonationID, "name", o.Name>>

ZeroOrigin == [DonationID |-> "", Name |-> ""]

\* ParseGiftOrigin: the empty string decodes to the zero value, an object
\* to its fields, anything else is an error (and the zero value).
ParseGiftOrigin(s) ==
  IF s = <<>> THEN [origin |-> ZeroOrigin, err |-> FALSE]
  ELSE IF Len(s) = 4 /\ s[1] = "donation_id" /\ s[3] = "name"
       THEN [origin |-> [DonationID |-> s[2], Name |-> s[4]], err |-> FALSE]
       ELSE [origin |-> ZeroOrigin, err |-> TRUE]

(* ----------------------- destination (Blackbaud) ---------------------- *)
\* Which requests a fault makes fail.  The dry-run client answers the two
\* create calls itself, so they cannot fail in a dry run.
searchFails(fault) == fault \in {"search", "auth"}

createConstituentFails(fault) == ~dryRun /\ fault \in {"createConstituent", "auth"}

listFails(fault) == fault \in {"list", "auth"}

createGiftFails(fault) == ~dryRun /\ fault \in {"createGift", "auth"}

SearchConstituents(email) == SelectSeq(constituents, LAMBDA c : c.email = email)

ListGiftsByConstituent(cid) == SelectSeq(gifts, LAMBDA g : g.constituentID = cid)

(* --------------------------- sync/service.go -------------------------- *)
maxDonationsPerRun ==
  IF cfgMaxDonationsPerRun <= 0 THEN defaultMaxDonationsPerRun
  ELSE cfgMaxDonationsPerRun

\* Index of the first element of list satisfying P, 0 if none.
FirstIndex(list, P(_)) ==
  LET S == {i \in 1..Len(list) : P(list[i])}
  IN IF S = {} THEN 0 ELSE CHOOSE i \in S : \A j \in S : i <= j

\* Config.GiftDefaults of the deployment.
giftDefaults == [FundID |-> "fund-1", CampaignID |-> "campaign-1",
                 AppealID |-> "appeal-1", Type |-> defaultType]

\* A findOrCreateConstituent whose creation reaches the destination in a dry
\* run too.
findOrCreateConstituent_DryWrites(d, fault) ==
  LET none == [id |-> 0, created |-> FALSE, constituents |-> constituents,
               fake |-> fakeCounter]
  IN
  IF ~d.hasSupporter
  THEN none @@ [err |-> "donation has no supporter"]
  ELSE IF d.email # "" /\ searchFails(fault)
  THEN none @@ [err |-> "searching constituents"]
  ELSE IF d.email # "" /\ Len(SearchConstituents(d.email)) > 0
  THEN [none EXCEPT !.id = SearchConstituents(d.email)[1].id] @@ [err |-> ""]
  ELSE IF createConstituentFails(fault)
  THEN none @@ [err |-> "creating constituent"]
  ELSE [id |-> Len(constituents) + 1, created |-> TRUE,
        constituents |-> Append(constituents,
                                [id |-> Len(constituents) + 1, email |-> d.email]),
        fake |-> fakeCounter, err |-> ""]

\* A findOrCreateConstituent that creates without searching first.
findOrCreateConstituent_NoSearch(d, fault) ==
  LET none == [id |-> 0, created |-> FALSE, constituents |-> constituents,
               fake |-> fakeCounter]
  IN
  IF ~d.hasSupporter
  THEN none @@ [err |-> "donation has no supporter"]
  ELSE IF createConstituentFails(fault)
  THEN none @@ [err |-> "creating constituent"]
  ELSE IF dryRun
  THEN [id |-> -(fakeCounter + 1), created |-> TRUE, constituents |-> constituents,
        fake |-> fakeCounter + 1, err |-> ""]
  ELSE [id |-> Len(constituents) + 1, created |-> TRUE,
        constituents |-> Append(constituents,
                                [id |-> Len(constituents) + 1, email |-> d.email]),
        fake |-> fakeCounter, err |-> ""]

\* A findOrCreateConstituent that does not look at the supporter first.
findOrCreateConstituent_NoSupporterCheck(d, fault) ==
  LET none == [id |-> 0, created |-> FALSE, constituents |-> constituents,
               fake |-> fakeCounter]
  IN
  IF d.email # "" /\ searchFails(fault)
  THEN none @@ [err |-> "searching constituents"]
  ELSE IF d.email # "" /\ Len(SearchConstituents(d.email)) > 0
  THEN [none EXCEPT !.id = SearchConstituents(d.email)[1].id] @@ [err |-> ""]
  ELSE IF createConstituentFails(fault)
  THEN none @@ [err |-> "creating constituent"]
  ELSE IF dryRun
  THEN [id |-> -(fakeCounter + 1), created |-> TRUE, constituents |-> constituents,
        fake |-> fakeCounter + 1, err |-> ""]
  ELSE [id |-> Len(constituents) + 1, created |-> TRUE,
        constituents |-> Append(constituents,
                                [id |-> Len(constituents) + 1, email |-> d.email]),
        fake |-> fakeCounter, err |-> ""]

\* findOrCreateConstituent: id, created, error, and the destination after it.
findOrCreateConstituent(d, fault) ==
  LET none == [id |-> 0, created |-> FALSE, constituents |-> constituents,
               fake |-> fakeCounter]
  IN
  IF ~d.hasSupporter
  THEN [none EXCEPT !.id = 0] @@ [err |-> "donation has no supporter"]
  ELSE IF d.email # "" /\ searchFails(fault)
  THEN none @@ [err |-> "searching constituents"]
  ELSE IF d.email # "" /\ Len(SearchConstituents(d.email)) > 0
  THEN [none EXCEPT !.id = SearchConstituents(d.email)[1].id] @@ [err |-> ""]
  ELSE IF createConstituentFails(fault)
  THEN none @@ [err |-> "creating constituent"]
  ELSE IF dryRun
  THEN [id |-> -(fakeCounter + 1), created |-> TRUE, constituents |-> constituents,
        fake |-> fakeCounter + 1, err |-> ""]
  ELSE [id |-> Len(constituents) + 1, created |-> TRUE,
        constituents |-> Append(constituents,
                                [id |-> Len(constituents) + 1, email |-> d.email]),
        fake |-> fakeCounter, err |-> ""]

\* A getConstituentGifts that asks the destination on every lookup.
getConstituentGifts_NoCache(cache, constituentID, fault) ==
  IF listFails(fault)
  THEN [gifts |-> <<>>, err |-> "listing constituent gifts", cache |-> cache,
        remote |-> TRUE]
  ELSE [gifts |-> ListGiftsByConstituent(constituentID), err |-> "",
        cache |-> (constituentID :> ListGiftsByConstituent(constituentID)) @@ cache,
        remote |-> TRUE]

\* getConstituentGifts against a given cache: the list, the error, the cache
\* after, and whether ListGiftsByConstituent was called.
getConstituentGifts(cache, constituentID, fault) ==
  IF constituentID \in DOMAIN cache
  THEN [gifts |-> cache[constituentID], err |-> "", cache |-> cache,
        remote |-> FALSE]
  ELSE IF listFails(fault)
  THEN [gifts |-> <<>>, err |-> "listing constituent gifts", cache |-> cache,
        remote |-> TRUE]
  ELSE [gifts |-> ListGiftsByConstituent(constituentID), err |-> "",
        cache |-> (constituentID :> ListGiftsByConstituent(constituentID)) @@ cache,
        remote |-> TRUE]

\* A findExistingGift that matches a recurring donation by the lookup id alone.
findExistingGift_LookupOnly(list, d) ==
  LET i == IF IsRecurring(d) /\ RecurringID(d) # ""
           THEN FirstIndex(list, LAMBDA g : g.lookupID = RecurringID(d))
           ELSE FirstIndex(list, LAMBDA g : g.lookupID = d.id)
  IN IF i = 0 THEN NoGift ELSE list[i]

\* findExistingGift over the constituent's gift list.
findExistingGift(list, d) ==
  LET i == IF IsRecurring(d) /\ RecurringID(d) # ""
           THEN FirstIndex(list, LAMBDA g :
                  g.lookupID = RecurringID(d)
                  /\ ParseGiftOrigin(g.origin).origin.DonationID = d.id)
           ELSE FirstIndex(list, LAMBDA g : g.lookupID = d.id)
  IN IF i = 0 THEN NoGift ELSE list[i]

\* findFirstRecurringGift over the constituent's gift list.
findFirstRecurringGift(list, recurringID) ==
  LET i == FirstIndex(list, LAMBDA g :
             g.lookupID = recurringID /\ g.type = GiftTypeRecurringGift)
  IN IF i = 0 THEN NoGift ELSE list[i]

ZeroContext == [firstGiftID |-> 0, isFirstInSeries |-> FALSE, sequenceNumber |-> 0]

Max(a, b) == IF a >= b THEN a ELSE b

\* A getRecurringContext that does not fall back to "first in series" when
\* the anchor is missing.
getRecurringContext_NoFallback(list, d) ==
  IF ~IsRecurring(d) \/ RecurringID(d) = "" THEN ZeroContext
  ELSE LET seqNum == Max(InstallmentNumber(d), 1)
           firstGift == findFirstRecurringGift(list, RecurringID(d))
       IN [firstGiftID |-> firstGift.id, isFirstInSeries |-> seqNum = 1,
           sequenceNumber |-> seqNum]

\* getRecurringContext over the constituent's gift list.
getRecurringContext(list, d) ==
  IF ~IsRecurring(d) \/ RecurringID(d) = "" THEN ZeroContext
  ELSE LET seqNum == Max(InstallmentNumber(d), 1)
           firstGift == findFirstRecurringGift(list, RecurringID(d))
       IN IF seqNum # 1 /\ firstGift # NoGift
          THEN [firstGiftID |-> firstGift.id, isFirstInSeries |-> FALSE,
                sequenceNumber |-> seqNum]
          ELSE [firstGiftID |-> 0, isFirstInSeries |-> TRUE,
                sequenceNumber |-> seqNum]

\* mapDonationToGift up to the branch on the kind of donation: the converted
\* donation with the batch prefix, the manual flag and the single split.
giftWithDefaults(d) ==
  LET gift == ToDomainType(d).gift
  IN [gift EXCEPT
        !.batchPrefix = originName,
        !.isManual = TRUE,
        !.giftSplits = << [amount |-> gift.amount, fundID |-> giftDefaults.FundID,
                           campaignID |-> giftDefaults.CampaignID,
                           appealID |-> giftDefaults.AppealID] >>]

\* A mapDonationToGift that forgets to link a payment to the first gift.
mapDonationToGift_NoLink(d, recCtx) ==
  LET gift == giftWithDefaults(d)
  IN IF ToDomainType(d).err # ""
     THEN [gift |-> NoGift, err |-> "converting donation to gift"]
     ELSE IF IsRecurring(d) /\ RecurringID(d) # ""
     THEN [gift |-> [gift EXCEPT
             !.lookupID = RecurringID(d),
             !.subtype = GiftSubtypeRecurring,
             !.origin = OriginString([DonationID |-> d.id, Name |-> originName]),
             !.type = IF recCtx.isFirstInSeries THEN GiftTypeRecurringGift
                      ELSE GiftTypeRecurringGiftPayment],
           err |-> ""]
     ELSE [gift |-> [gift EXCEPT !.type = giftDefaults.Type, !.lookupID = d.id],
           err |-> ""]

\* A mapDonationToGift that marks every recurring gift as a payment.
mapDonationToGift_AlwaysPayment(d, recCtx) ==
  LET gift == giftWithDefaults(d)
  IN IF ToDomainType(d).err # ""
     THEN [gift |-> NoGift, err |-> "converting donation to gift"]
     ELSE IF IsRecurring(d) /\ RecurringID(d) # ""
     THEN [gift |-> [gift EXCEPT
             !.lookupID = RecurringID(d),
             !.subtype = GiftSubtypeRecurring,
             !.origin = OriginString([DonationID |-> d.id, Name |-> originName]),
             !.type = GiftTypeRecurringGiftPayment,
             !.linkedGifts = IF recCtx.firstGiftID # 0
                             THEN <<recCtx.firstGiftID>> ELSE <<>>],
           err |-> ""]
     ELSE [gift |-> [gift EXCEPT !.type = giftDefaults.Type, !.lookupID = d.id],
           err |-> ""]

\* mapDonationToGift: the gift, or the conversion's error and no gift.
mapDonationToGift(d, recCtx) ==
  LET gift == giftWithDefaults(d)
  IN IF ToDomainType(d).err # ""
     THEN [gift |-> NoGift, err |-> "converting donation to gift"]
     ELSE IF IsRecurring(d) /\ RecurringID(d) # ""
     THEN [gift |-> [gift EXCEPT
             !.lookupID = RecurringID(d),
             !.subtype = GiftSubtypeRecurring,
             !.origin = OriginString([DonationID |-> d.id, Name |-> originName]),
             !.type = IF recCtx.isFirstInSeries THEN GiftTypeRecurringGift
                      ELSE GiftTypeRecurringGiftPayment,
             !.linkedGifts = IF ~recCtx.isFirstInSeries /\ recCtx.firstGiftID # 0
                             THEN <<recCtx.firstGiftID>> ELSE <<>>],
           err |-> ""]
     ELSE [gift |-> [gift EXCEPT !.type = giftDefaults.Type, !.lookupID = d.id],
           err |-> ""]

ZeroOutcome == [DonationID |-> "", ConstituentCreated |-> FALSE, Error |-> "",
                GiftCreated |-> FALSE, GiftID |-> 0, GiftSkippedExisting |-> FALSE,
                GiftUpdated |-> FALSE]

\* What the last processDonation resolved: the constituent id, whether the
\* gift list was obtained, how many times ListGiftsByConstituent was called,
\* whether the recurring context was computed, the context, the mapped gift
\* and the error of findOrCreateConstituent that the result wraps.
ZeroCall == [constituentID |-> 0, listed |-> FALSE, remoteLists |-> 0,
             ctxDone |-> FALSE, recCtx |-> ZeroContext, gift |-> NoGift,
             constituentErr |-> ""]

\* A duplicate check whose result carries no gift id.
skippedExisting_NoID(base, created, existingGift, cache) ==
  [base EXCEPT !.outcome.ConstituentCreated = created,
               !.outcome.GiftSkippedExisting = TRUE,
               !.giftCache = cache,
               !.call.listed = TRUE]

\* processDonation when the duplicate check found a gift: the result names
\* it and the call ends.
skippedExisting(base, created, existingGift, cache) ==
  [base EXCEPT !.outcome.ConstituentCreated = created,
               !.outcome.GiftID = existingGift.id,
               !.outcome.GiftSkippedExisting = TRUE,
               !.giftCache = cache,
               !.call.listed = TRUE]

\* processDonation: the DonationResult and everything the call changed.
processDonation(d, fault) ==
  LET c == findOrCreateConstituent(d, fault)
      l == getConstituentGifts(giftCache, c.id, fault)
      existingGift == findExistingGift(l.gifts, d)
      anchorLookup == /\ l.err = "" /\ existingGift = NoGift
                      /\ IsRecurring(d) /\ RecurringID(d) # ""
                      /\ Max(InstallmentNumber(d), 1) # 1
      l2 == getConstituentGifts(l.cache, c.id, fault)
      recCtx == getRecurringContext(l.gifts, d)
      m == mapDonationToGift(d, recCtx)
      mapped == [m.gift EXCEPT !.constituentID = c.id]
      newID == IF dryRun THEN -(c.fake + 1) ELSE Len(gifts) + 1
      base == [outcome |-> [ZeroOutcome EXCEPT !.DonationID = d.id],
               constituents |-> c.constituents, gifts |-> gifts,
               giftCache |-> giftCache, fake |-> c.fake,
               call |-> [ZeroCall EXCEPT
                          !.constituentID = c.id,
                          !.constituentErr = c.err,
                          !.remoteLists =
                             IF c.err # "" THEN 0
                             ELSE (IF l.remote THEN 1 ELSE 0)
                                  + (IF anchorLookup /\ l2.remote THEN 1 ELSE 0)]]
  IN
  IF c.err # ""
  THEN [base EXCEPT !.outcome.Error = "finding/creating constituent"]
  ELSE IF l.err # ""
  THEN [base EXCEPT !.outcome.ConstituentCreated = c.created,
                    !.outcome.Error = "checking for existing gift"]
  ELSE IF existingGift # NoGift
  THEN skippedExisting(base, c.created, existingGift, l.cache)
  ELSE IF m.err # ""
  THEN [base EXCEPT !.outcome.ConstituentCreated = c.created,
                    !.outcome.Error = "mapping donation to gift",
                    !.giftCache = l.cache,
                    !.call.listed = TRUE,
                    !.call.ctxDone = TRUE,
                    !.call.recCtx = recCtx]
  ELSE IF createGiftFails(fault)
  THEN [base EXCEPT !.outcome.ConstituentCreated = c.created,
                    !.outcome.Error = "creating gift",
                    !.giftCache = l.cache,
                    !.call.listed = TRUE,
                    !.call.ctxDone = TRUE,
                    !.call.recCtx = recCtx,
                    !.call.gift = mapped]
  ELSE [base EXCEPT !.outcome.ConstituentCreated = c.created,
                    !.outcome.GiftID = newID,
                    !.outcome.GiftCreated = TRUE,
                    !.gifts = IF dryRun THEN gifts
                              ELSE Append(gifts, [mapped EXCEPT !.id = newID]),
                    !.giftCache = l.cache,
                    !.fake = IF dryRun THEN c.fake + 1 ELSE c.fake,
                    !.call.listed = TRUE,
                    !.call.ctxDone = TRUE,
                    !.call.recCtx = recCtx,
                    !.call.gift = [mapped EXCEPT !.id = newID]]

ZeroResult == [DonationsProcessed |-> 0, ConstituentsCreated |-> 0,
               ConstituentsExisting |-> 0, GiftsCreated |-> 0,
               GiftsSkippedExisting |-> 0, GiftsUpdated |-> 0, Errors |-> 0]

\* A processAndRecord that goes on to the counters after recording an error.
processAndRecord_CountsOnError(res, o) ==
  [res EXCEPT
     !.DonationsProcessed = @ + 1,
     !.Errors = IF o.Error # "" THEN @ + 1 ELSE @,
     !.ConstituentsCreated = IF o.ConstituentCreated THEN @ + 1 ELSE @,
     !.ConstituentsExisting = IF o.ConstituentCreated THEN @ ELSE @ + 1,
     !.GiftsCreated = IF o.GiftCreated THEN @ + 1 ELSE @,
     !.GiftsUpdated = IF o.GiftUpdated THEN @ + 1 ELSE @,
     !.GiftsSkippedExisting = IF o.GiftSkippedExisting THEN @ + 1 ELSE @]

\* A processAndRecord that does not record the error of a failed donation.
processAndRecord_DropsError(res, o) ==
  IF o.Error # ""
  THEN [res EXCEPT !.DonationsProcessed = @ + 1]
  ELSE [res EXCEPT
          !.DonationsProcessed = @ + 1,
          !.ConstituentsCreated = IF o.ConstituentCreated THEN @ + 1 ELSE @,
          !.ConstituentsExisting = IF o.ConstituentCreated THEN @ ELSE @ + 1,
          !.GiftsCreated = IF o.GiftCreated THEN @ + 1 ELSE @,
          !.GiftsUpdated = IF o.GiftUpdated THEN @ + 1 ELSE @,
          !.GiftsSkippedExisting = IF o.GiftSkippedExisting THEN @ + 1 ELSE @]

\* processAndRecord: the run's Result after recording a DonationResult.
processAndRecord(res, o) ==
  IF o.Error # ""
  THEN [res EXCEPT !.DonationsProcessed = @ + 1, !.Errors = @ + 1]
  ELSE [res EXCEPT
          !.DonationsProcessed = @ + 1,
          !.ConstituentsCreated = IF o.ConstituentCreated THEN @ + 1 ELSE @,
          !.ConstituentsExisting = IF o.ConstituentCreated THEN @ ELSE @ + 1,
          !.GiftsCreated = IF o.GiftCreated THEN @ + 1 ELSE @,
          !.GiftsUpdated = IF o.GiftUpdated THEN @ + 1 ELSE @,
          !.GiftsSkippedExisting = IF o.GiftSkippedExisting THEN @ + 1 ELSE @]

(* -------------------------- blackbaud/oauth.go ------------------------ *)
Callers == 1..NumCallers

\* What a caller of AccessToken got: the token, the error, the path that
\* produced it, the instant of the return and the expiry of the token.
NoReturn == [token |-> 0, err |-> "", via |-> "", at |-> 0, exp |-> 0]

\* isTokenValid (inclusive comparison).
isTokenValid_Inclusive ==
  accessToken # 0 /\ now <= expiresAt - tokenExpiryBuffer

\* isTokenValid.
isTokenValid ==
  accessToken # 0 /\ now < expiresAt - tokenExpiryBuffer

\* No second check once the write lock is held.
recheckTokenValid_Skipped == FALSE

\* The second check of refreshAccessToken, under the write lock.
recheckTokenValid == isTokenValid

\* The answers of the token endpoint: a transport error, a status other
\* than 200, a body that does not decode, or a token response.  A token
\* response carries a new access token or an empty one, a lifetime
\* (0 = omitted) and a refresh token that is absent, the one sent, or new.
Responses ==
  [kind : {"transport", "status", "decode"}, access : {0}, expiresIn : {0},
   refresh : {"none"}]
  \cup [kind : {"ok"}, access : {0, exchanges + 1}, expiresIn : {0, 1, 2},
        refresh : {"none", "same", "new"}]

\* The refresh token of a response, given the one sent; 0 = "".
ResponseRefreshToken(resp, sentToken) ==
  CASE resp.refresh = "none" -> 0
    [] resp.refresh = "same" -> sentToken
    [] OTHER -> sentToken + 1

\* A refresh that saves every refresh token the response carries.
savesRefreshToken_Always(resp, sentToken) ==
  /\ resp.kind = "ok"
  /\ ResponseRefreshToken(resp, sentToken) # 0

\* Whether refreshAccessToken calls SaveRefreshToken for a response.
savesRefreshToken(resp, sentToken) ==
  /\ resp.kind = "ok"
  /\ ResponseRefreshToken(resp, sentToken) # 0
  /\ ResponseRefreshToken(resp, sentToken) # sentToken

\* A refresh that only logs a failed save of the rotated refresh token.
refreshError_IgnoresSave(resp, sentToken, saveOK) ==
  CASE resp.kind = "transport" -> "executing token request"
    [] resp.kind = "status" -> "token refresh failed"
    [] resp.kind = "decode" -> "decoding token response"
    [] OTHER -> ""

\* The error refreshAccessToken returns for a response, "" if none.
refreshError(resp, sentToken, saveOK) ==
  CASE resp.kind = "transport" -> "executing token request"
    [] resp.kind = "status" -> "token refresh failed"
    [] resp.kind = "decode" -> "decoding token response"
    [] OTHER ->
         IF savesRefreshToken(resp, sentToken) /\ ~saveOK
         THEN "saving refresh token" ELSE ""

\* A refresh that stores the response's token before looking at the status.
cacheAfterRefresh_Early(resp, sentToken, saveOK) ==
  IF resp.kind = "transport"
  THEN [accessToken |-> accessToken, expiresAt |-> expiresAt]
  ELSE [accessToken |-> resp.access,
        expiresAt |-> IF resp.expiresIn > 0 THEN now + resp.expiresIn
                      ELSE now + defaultTokenDuration]

\* The cached token and expiry after refreshAccessToken handled a response.
cacheAfterRefresh(resp, sentToken, saveOK) ==
  IF refreshError(resp, sentToken, saveOK) # ""
  THEN [accessToken |-> accessToken, expiresAt |-> expiresAt]
  ELSE [accessToken |-> resp.access,
        expiresAt |-> IF resp.expiresIn > 0 THEN now + resp.expiresIn
                      ELSE now + defaultTokenDuration]

\* cachedToken: the fast path of AccessToken, under the read lock.
CachedToken(t) ==
  /\ tpc[t] = "idle"
  /\ mu = 0
  /\ IF isTokenValid
     THEN /\ tpc' = [tpc EXCEPT ![t] = "done"]
          /\ ret' = [ret EXCEPT ![t] = [token |-> accessToken, err |-> "",
                                        via |-> "cached", at |-> now,
                                        exp |-> expiresAt]]
     ELSE /\ tpc' = [tpc EXCEPT ![t] = "wantLock"]
          /\ ret' = [ret EXCEPT ![t] = [NoReturn EXCEPT !.via = "miss", !.at = now]]
  /\ UNCHANGED <<accessToken, expiresAt, mu, refreshToken, sent, now, exchanges,
                 saved, okNow, unusableNow>>
  /\ UNCHANGED <<syncVars, fnVars, overlapVars>>

\* A refreshAccessToken that does not take the write lock.
LockAndRead_NoLock(t, readOK) ==
  /\ tpc[t] = "wantLock"
  /\ IF recheckTokenValid
     THEN /\ tpc' = [tpc EXCEPT ![t] = "done"]
          /\ ret' = [ret EXCEPT ![t] = [token |-> accessToken, err |-> "",
                                        via |-> "recheck", at |-> now,
                                        exp |-> expiresAt]]
          /\ UNCHANGED <<mu, sent>>
     ELSE IF ~readOK
     THEN /\ tpc' = [tpc EXCEPT ![t] = "done"]
          /\ ret' = [ret EXCEPT ![t] = [token |-> 0, err |-> "getting refresh token",
                                        via |-> "refresh", at |-> now, exp |-> 0]]
          /\ UNCHANGED <<mu, sent>>
     ELSE /\ exchanges < MaxExchanges
          /\ tpc' = [tpc EXCEPT ![t] = "exchange"]
          /\ mu' = t
          /\ sent' = [sent EXCEPT ![t] = refreshToken]
          /\ UNCHANGED ret
  /\ UNCHANGED <<accessToken, expiresAt, refreshToken, now, exchanges, saved,
                 okNow, unusableNow>>
  /\ UNCHANGED <<syncVars, fnVars, overlapVars>>

\* refreshAccessToken up to the token request: the write lock, the second
\* check, the read of the refresh token.
LockAndRead(t, readOK) ==
  /\ tpc[t] = "wantLock"
  /\ mu = 0
  /\ IF recheckTokenValid
     THEN /\ tpc' = [tpc EXCEPT ![t] = "done"]
          /\ ret' = [ret EXCEPT ![t] = [token |-> accessToken, err |-> "",
                                        via |-> "recheck", at |-> now,
                                        exp |-> expiresAt]]
          /\ UNCHANGED <<mu, sent>>
     ELSE IF ~readOK
     THEN /\ tpc' = [tpc EXCEPT ![t] = "done"]
          /\ ret' = [ret EXCEPT ![t] = [token |-> 0, err |-> "getting refresh token",
                                        via |-> "refresh", at |-> now, exp |-> 0]]
          /\ UNCHANGED <<mu, sent>>
     ELSE /\ exchanges < MaxExchanges
          /\ tpc' = [tpc EXCEPT ![t] = "exchange"]
          /\ mu' = t
          /\ sent' = [sent EXCEPT ![t] = refreshToken]
          /\ UNCHANGED ret
  /\ UNCHANGED <<accessToken, expiresAt, refreshToken, now, exchanges, saved,
                 okNow, unusableNow>>
  /\ UNCHANGED <<syncVars, fnVars, overlapVars>>

\* The rest of refreshAccessToken: the answer of the token endpoint, the
\* save of a rotated refresh token, the cache update, the unlock.
Exchange(t, resp, saveOK) ==
  /\ tpc[t] = "exchange"
  /\ mu = t
  /\ LET e == refreshError(resp, sent[t], saveOK)
         c == cacheAfterRefresh(resp, sent[t], saveOK)
         rt == ResponseRefreshToken(resp, sent[t])
     IN /\ accessToken' = c.accessToken
        /\ expiresAt' = c.expiresAt
        /\ refreshToken' = IF savesRefreshToken(resp, sent[t]) /\ saveOK
                           THEN rt ELSE refreshToken
        /\ saved' = [saved EXCEPT ![t] =
                       IF savesRefreshToken(resp, sent[t]) THEN rt ELSE 0]
        /\ ret' = [ret EXCEPT ![t] =
                     IF e # ""
                     THEN [token |-> 0, err |-> e, via |-> "refresh", at |-> now,
                           exp |-> 0]
                     ELSE [token |-> c.accessToken, err |-> "", via |-> "refresh",
                           at |-> now, exp |-> c.expiresAt]]
        /\ okNow' = IF e = "" THEN okNow + 1 ELSE okNow
        /\ unusableNow' =
             (unusableNow \/ (e = "" /\ (resp.access = 0 \/
                                         ~(now < c.expiresAt - tokenExpiryBuffer))))
  /\ exchanges' = exchanges + 1
  /\ mu' = 0
  /\ tpc' = [tpc EXCEPT ![t] = "done"]
  /\ UNCHANGED <<sent, now>>
  /\ UNCHANGED <<syncVars, fnVars, overlapVars>>

\* The caller takes the result; it may call AccessToken again.
Return(t) ==
  /\ tpc[t] = "done"
  /\ tpc' = [tpc EXCEPT ![t] = "idle"]
  /\ ret' = [ret EXCEPT ![t] = NoReturn]
  /\ sent' = [sent EXCEPT ![t] = 0]
  /\ saved' = [saved EXCEPT ![t] = 0]
  /\ UNCHANGED <<accessToken, expiresAt, mu, refreshToken, now, exchanges,
                 okNow, unusableNow>>
  /\ UNCHANGED <<syncVars, fnVars, overlapVars>>

\* Five minutes pass.
TickToken ==
  /\ now < MaxTime
  /\ now' = now + 1
  /\ okNow' = 0
  /\ unusableNow' = FALSE
  /\ UNCHANGED <<accessToken, expiresAt, mu, refreshToken, tpc, sent, ret,
                 exchanges, saved>>
  /\ UNCHANGED <<syncVars, fnVars, overlapVars>>

NextToken ==
  \/ \E t \in Callers : CachedToken(t)
  \/ \E t \in Callers, readOK \in BOOLEAN : LockAndRead(t, readOK)
  \/ \E t \in Callers, resp \in Responses, saveOK \in BOOLEAN :
       Exchange(t, resp, saveOK)
  \/ \E t \in Callers : Return(t)
  \/ TickToken

(* ------------------------------- Init --------------------------------- *)
EmptyCache == [c \in {} |-> <<>>]

NoDryRun == [valid |-> FALSE, batch |-> <<>>, dest |-> <<0, 0>>,
             result |-> ZeroResult]

\* Nothing is at hand and nothing was called.
NoArguments == [gifts |-> <<>>, recCtx |-> ZeroContext]

NotApplied == [fn |-> "", donation |-> "", gift |-> NoGift, err |-> ""]

\* The Service of an invocation that has not called Run yet.
NoRun(runner) ==
  [runner |-> runner, pc |-> "idle", runErr |-> "", fetchedSince |-> FALSE,
   fetched |-> <<>>, envFault |-> FALSE, dryRun |-> FALSE, mode |-> "fresh",
   todo |-> <<>>, giftCache |-> EmptyCache, fakeCounter |-> 0,
   result |-> ZeroResult, outcome |-> ZeroOutcome, call |-> ZeroCall,
   readIDs |-> <<>>]

InitService ==
  /\ parked = NoRun(2)
  /\ readIDs = <<>>
  /\ constituents = <<>>
  /\ gifts = <<>>
  /\ pending = <<>>
  /\ lastSync = 0
  /\ pc = "idle"
  /\ runErr = ""
  /\ fetchedSince = FALSE
  /\ fetched = <<>>
  /\ fetchedAt = 0
  /\ envFault = FALSE
  /\ prevDry = NoDryRun
  /\ dryRun = FALSE
  /\ mode = "fresh"
  /\ todo = <<>>
  /\ giftCache = EmptyCache
  /\ fakeCounter = 0
  /\ result = ZeroResult
  /\ outcome = ZeroOutcome
  /\ call = ZeroCall
  /\ runs = 0
  /\ clock = 1
  /\ accessToken = 0
  /\ expiresAt = 0
  /\ mu = 0
  /\ refreshToken = 1
  /\ tpc = [t \in Callers |-> "idle"]
  /\ sent = [t \in Callers |-> 0]
  /\ ret = [t \in Callers |-> NoReturn]
  /\ saved = [t \in Callers |-> 0]
  /\ now = 0
  /\ exchanges = 0
  /\ okNow = 0
  /\ unusableNow = FALSE

\* The parameter does not exist.
NoParameter == [exists |-> FALSE, value |-> <<>>]

NoStoreCall == [fn |-> "", id |-> <<>>, before |-> <<>>, ids |-> <<>>, err |-> ""]

Init ==
  /\ InitService
  /\ given = NoArguments
  /\ applied = NotApplied
  /\ parameter = NoParameter
  /\ storeCall = NoStoreCall

(* ---------------------------- state store ----------------------------- *)
\* RemovePendingDonationID: the stored list without the given id.
RemovePendingDonationID(ids, id) == SelectSeq(ids, LAMBDA x : x # id)

(* ------------------------------ the run ------------------------------- *)
NoOverride == -1

\* fundraiseup.Client.Donations: the donations created after since, oldest first.
FetchSince(since) ==
  SelectSeq(Catalog, LAMBDA d : d.createdAt > since /\ d.createdAt <= clock)

defaultSyncStart == clock + defaultSyncDays

\* runFresh without the limit on the batch.
Truncate_None(donations) == donations

\* A runFresh that keeps the last donations of the fetch instead of the first.
Truncate_Last(donations) ==
  IF maxDonationsPerRun > 0 /\ Len(donations) > maxDonationsPerRun
  THEN SubSeq(donations, Len(donations) - maxDonationsPerRun + 1, Len(donations))
  ELSE donations

Truncate(donations) ==
  IF maxDonationsPerRun > 0 /\ Len(donations) > maxDonationsPerRun
  THEN SubSeq(donations, 1, maxDonationsPerRun)
  ELSE donations

IDs(donations) == [i \in 1..Len(donations) |-> donations[i].id]

\* runFresh: the time to fetch from is the stored sync time, the override
\* if there is one, and the default start if that is the zero time.
syncSince(sinceOverride) ==
  LET since == IF sinceOverride # NoOverride THEN sinceOverride ELSE lastSync
  IN IF since = 0 THEN defaultSyncStart ELSE since

\* A Run that never looks at the pending list it read.
runMode_AlwaysFresh(pendingIDs) == "fresh"

\* Run: resume when the pending list is non-empty, a fresh sync otherwise.
runMode(pendingIDs) == IF Len(pendingIDs) > 0 THEN "resume" ELSE "fresh"

\* A runFresh that does not store the pending list before the loop.
checkpointBeforeLoop_Skipped(dry, pendingIDs, setOK) ==
  [pending |-> pending, err |-> ""]

\* A runFresh that stores the pending list in a dry run too.
checkpointBeforeLoop_DryWrites(dry, pendingIDs, setOK) ==
  IF setOK THEN [pending |-> pendingIDs, err |-> ""]
  ELSE [pending |-> pending, err |-> "storing pending donation IDs"]

\* runFresh: the pending list is stored before the loop, except in a dry run.
checkpointBeforeLoop(dry, pendingIDs, setOK) ==
  IF dry THEN [pending |-> pending, err |-> ""]
  ELSE IF setOK THEN [pending |-> pendingIDs, err |-> ""]
  ELSE [pending |-> pending, err |-> "storing pending donation IDs"]

\* A runResume that counts a donation it could not fetch as processed.
recordFetchFailure_Counted(res) ==
  [res EXCEPT !.Errors = @ + 1, !.DonationsProcessed = @ + 1]

\* runResume: a donation that cannot be fetched is recorded as an error.
recordFetchFailure(res) == [res EXCEPT !.Errors = @ + 1]

\* Run up to the start of the processing loop: New, the pending read, and for
\* a fresh run the reads, the fetch, the truncation and the checkpoint write.
\* A failure of one of them makes Run return the error.
RunStart(dry, sinceOverride, sf) ==
  /\ UNCHANGED <<tokenVars, fnVars, overlapVars>>
  /\ pc = "idle"
  /\ runs < MaxRuns
  /\ runs' = runs + 1
  /\ dryRun' = dry
  /\ fakeCounter' = 0
  /\ giftCache' = EmptyCache
  /\ result' = ZeroResult
  /\ IF sf = "readPending"
     THEN /\ runErr' = "getting pending donation IDs"
          /\ pc' = "idle"
          /\ todo' = <<>>
          /\ fetchedSince' = FALSE
          /\ fetched' = <<>>
          /\ UNCHANGED fetchedAt
          /\ UNCHANGED <<pending, mode>>
     ELSE IF runMode(pending) = "resume"
     THEN /\ sf = "none"
          /\ mode' = "resume"
          /\ todo' = pending
          /\ pc' = "loop"
          /\ runErr' = ""
          /\ fetchedSince' = FALSE
          /\ fetched' = <<>>
          /\ UNCHANGED fetchedAt
          /\ UNCHANGED pending
     ELSE IF sf = "readLastSync"
     THEN /\ mode' = "fresh"
          /\ runErr' = "getting last sync time"
          /\ pc' = "idle"
          /\ todo' = <<>>
          /\ fetchedSince' = FALSE
          /\ fetched' = <<>>
          /\ UNCHANGED fetchedAt
          /\ UNCHANGED pending
     ELSE IF sf = "fetchSince"
     THEN /\ mode' = "fresh"
          /\ runErr' = "fetching donations"
          /\ pc' = "idle"
          /\ todo' = <<>>
          /\ fetchedSince' = TRUE
          /\ fetched' = <<>>
          /\ UNCHANGED fetchedAt
          /\ UNCHANGED pending
     ELSE LET donations == Truncate(FetchSince(syncSince(sinceOverride)))
              cp == checkpointBeforeLoop(dry, IDs(donations), sf # "setPending")
          IN /\ mode' = "fresh"
             /\ fetchedSince' = TRUE
             /\ fetched' = IDs(FetchSince(syncSince(sinceOverride)))
             /\ fetchedAt' = clock
             /\ IF Len(donations) = 0
                THEN /\ runErr' = ""
                     /\ pc' = "idle"
                     /\ todo' = <<>>
                     /\ UNCHANGED pending
                ELSE /\ runErr' = cp.err
                     /\ pending' = cp.pending
                     /\ pc' = IF cp.err # "" THEN "idle" ELSE "loop"
                     /\ todo' = IF cp.err # "" THEN <<>> ELSE IDs(donations)
  /\ envFault' = (sf # "none")
  /\ UNCHANGED <<constituents, gifts, lastSync, outcome, call, clock, prevDry>>

\* One iteration of the loop up to the removal from pending: in a resumed
\* run the fetch by id, then processAndRecord.
ProcessNext(fault) ==
  /\ UNCHANGED <<tokenVars, fnVars, overlapVars>>
  /\ pc = "loop"
  /\ Len(gifts) < MaxGifts
  /\ Len(constituents) < MaxConstituents
  /\ fault = "fetch" => mode = "resume"
  /\ pc' = IF fault = "fetch" THEN "removeUnfetched" ELSE "remove"
  /\ envFault' = (envFault \/ fault # "none")
  /\ IF fault = "fetch"
     THEN /\ result' = recordFetchFailure(result)
          /\ UNCHANGED <<constituents, gifts, giftCache, fakeCounter, outcome, call>>
     ELSE LET p == processDonation(DonationByID(Head(todo)), fault)
          IN /\ constituents' = p.constituents
             /\ gifts' = p.gifts
             /\ giftCache' = p.giftCache
             /\ fakeCounter' = p.fake
             /\ outcome' = p.outcome
             /\ call' = p.call
             /\ result' = processAndRecord(result, p.outcome)
  /\ UNCHANGED <<pending, lastSync, runErr, fetchedSince, fetched, fetchedAt, prevDry,
                 dryRun, mode, todo, runs, clock>>

\* The removal of the donation just handled (or, in a resumed run, of the
\* donation that could not be fetched) from the pending list; a failure of
\* the removal is logged and the loop goes on.
RemovePending(removeOK) ==
  /\ UNCHANGED <<tokenVars, fnVars, overlapVars>>
  /\ pc \in {"remove", "removeUnfetched"}
  /\ pending' = IF dryRun \/ ~removeOK THEN pending
                ELSE RemovePendingDonationID(pending, Head(todo))
  /\ todo' = Tail(todo)
  /\ pc' = IF Len(todo) = 1 THEN "finish" ELSE "loop"
  /\ envFault' = (envFault \/ (~dryRun /\ ~removeOK))
  /\ UNCHANGED <<constituents, gifts, lastSync, runErr, fetchedSince, fetched, fetchedAt,
                 prevDry, dryRun, mode, giftCache, fakeCounter, result, outcome, call, runs, clock>>

\* The batch of the run: the pending list in a resumed run (a dry run leaves
\* it as it was read), the truncated fetch in a fresh one.
batchOfRun == IF mode = "resume" THEN pending ELSE Truncate(fetched)

\* The end of runFresh / runResume: the sync time is advanced, and Run
\* returns the error of that write if it fails.
FinishRun(setOK) ==
  /\ UNCHANGED <<tokenVars, fnVars, overlapVars>>
  /\ pc = "finish"
  /\ lastSync' = IF dryRun \/ ~setOK THEN lastSync ELSE clock
  /\ runErr' = IF dryRun \/ setOK THEN "" ELSE "updating last sync time"
  /\ pc' = "idle"
  /\ giftCache' = EmptyCache
  /\ prevDry' = IF dryRun /\ ~envFault
                THEN [valid |-> TRUE, batch |-> batchOfRun,
                      dest |-> <<Len(constituents), Len(gifts)>>,
                      result |-> result]
                ELSE prevDry
  /\ UNCHANGED <<constituents, gifts, pending, fetchedSince, fetched, fetchedAt, envFault,
                 dryRun, mode, todo, fakeCounter, result, outcome, call, runs, clock>>

\* The process stops (the Lambda times out, the context is cancelled):
\* everything in memory is lost, the stores keep what was written.
Interrupt ==
  /\ UNCHANGED <<tokenVars, fnVars, overlapVars>>
  /\ pc # "idle"
  /\ pc' = "idle"
  /\ todo' = <<>>
  /\ giftCache' = EmptyCache
  /\ UNCHANGED <<constituents, gifts, pending, lastSync, runErr, fetchedSince,
                 fetched, fetchedAt, envFault, prevDry, dryRun, mode, fakeCounter, result, outcome, call, runs, clock>>

Tick ==
  /\ UNCHANGED <<tokenVars, fnVars, overlapVars>>
  /\ clock < MaxClock
  /\ clock' = clock + 1
  /\ UNCHANGED <<constituents, gifts, pending, lastSync, pc, runErr, fetchedSince,
                 fetched, fetchedAt, envFault, prevDry, dryRun, mode, todo, giftCache,
                 fakeCounter, result, outcome, call, runs>>

Next ==
  \/ \E dry \in BOOLEAN, so \in {NoOverride, 0}, sf \in StoreFaults :
       RunStart(dry, so, sf)
  \/ \E f \in Faults \cup {"fetch"} : ProcessNext(f)
  \/ \E removeOK \in BOOLEAN : RemovePending(removeOK)
  \/ \E setOK \in BOOLEAN : FinishRun(setOK)
  \/ Interrupt
  \/ Tick

Spec == Init /\ [][Next]_vars

(* ------------ processDonation called directly on a Service ------------ *)
\* A Service as the tests build it: an empty gift cache.
NewService(dry) ==
  /\ UNCHANGED <<tokenVars, fnVars, overlapVars>>
  /\ pc = "idle"
  /\ dryRun' = dry
  /\ fakeCounter' = 0
  /\ giftCache' = EmptyCache
  /\ UNCHANGED <<constituents, gifts, pending, lastSync, pc, runErr, fetchedSince,
                 fetched, fetchedAt, envFault, prevDry, mode, todo, result, outcome, call,
                 runs, clock>>

CallProcessDonation(d, fault) ==
  /\ UNCHANGED <<tokenVars, fnVars, overlapVars>>
  /\ pc = "idle"
  /\ fakeCounter < MaxFakeIDs
  /\ Len(gifts) < MaxCallGifts
  /\ Len(constituents) < MaxConstituents
  /\ LET p == processDonation(d, fault)
     IN /\ constituents' = p.constituents
        /\ gifts' = p.gifts
        /\ giftCache' = p.giftCache
        /\ fakeCounter' = p.fake
        /\ outcome' = p.outcome
        /\ call' = p.call
  /\ UNCHANGED <<pending, lastSync, pc, runErr, fetchedSince, fetched, fetchedAt, envFault,
                 prevDry, dryRun, mode, todo, result, runs, clock>>

NextCall ==
  \/ \E dry \in BOOLEAN : NewService(dry)
  \/ \E d \in Donations, f \in Faults : CallProcessDonation(d, f)

SpecCall == Init /\ [][NextCall]_vars

SpecToken == Init /\ [][NextToken]_vars

(* ---- findExistingGift and mapDonationToGift called on their own ------ *)
MaxListLen == 2

\* Gifts a constituent's list can hold: the lookup id of a one-time donation,
\* of a series, or a donation id of that series; no origin, the origin of a
\* donation of the series, or a string that is not JSON.
GiftKinds ==
  {[NoGift EXCEPT !.constituentID = 1, !.lookupID = l, !.origin = o] :
     l \in {"d1", "s1", "d2"},
     o \in {<<>>,
            OriginString([DonationID |-> "d2", Name |-> originName]),
            OriginString([DonationID |-> "d3", Name |-> originName]),
            <<"not json">>}}

\* The lists of at most MaxListLen such gifts, each gift with its own id.
GiftLists ==
  {[i \in DOMAIN k |-> [k[i] EXCEPT !.id = i]] :
     k \in UNION {[1..n -> GiftKinds] : n \in 0..MaxListLen}}

\* The recurringContext values getRecurringContext builds.
Contexts ==
  {ZeroContext,
   [firstGiftID |-> 0, isFirstInSeries |-> TRUE, sequenceNumber |-> 1],
   [firstGiftID |-> 0, isFirstInSeries |-> TRUE, sequenceNumber |-> 2],
   [firstGiftID |-> 7, isFirstInSeries |-> FALSE, sequenceNumber |-> 2]}

InitFn ==
  /\ InitService
  /\ given \in [gifts : GiftLists, recCtx : Contexts]
  /\ applied = NotApplied
  /\ parameter = NoParameter
  /\ storeCall = NoStoreCall

\* findExistingGift on the cached list of the constituent.
ApplyFindExistingGift(d) ==
  /\ applied' = [fn |-> "findExistingGift", donation |-> d.id,
                 gift |-> findExistingGift(given.gifts, d), err |-> ""]
  /\ UNCHANGED <<syncVars, tokenVars, overlapVars, given, parameter, storeCall>>

ApplyMapDonationToGift(d) ==
  /\ applied' = [fn |-> "mapDonationToGift", donation |-> d.id,
                 gift |-> mapDonationToGift(d, given.recCtx).gift,
                 err |-> mapDonationToGift(d, given.recCtx).err]
  /\ UNCHANGED <<syncVars, tokenVars, overlapVars, given, parameter, storeCall>>

NextFn ==
  \/ \E d \in Donations : ApplyFindExistingGift(d)
  \/ \E d \in Donations : ApplyMapDonationToGift(d)

SpecFn == InitFn /\ [][NextFn]_vars

(* ------------------ storage/ssm.go called on its own ------------------ *)
MaxPending == 3

\* Donation ids as strings of characters: never empty, never with a comma.
IDStrings == {<<"a">>, <<"b">>, <<"a", "b">>}

IDLists == UNION {[1..n -> IDStrings] : n \in 0..MaxPending}

RECURSIVE Join(_)
\* strings.Join(ids, ","): the ids with a comma between two of them.
Join(ids) ==
  IF Len(ids) = 0 THEN <<>>
  ELSE IF Len(ids) = 1 THEN ids[1]
  ELSE ids[1] \o <<",">> \o Join(Tail(ids))

RECURSIVE Split(_)
\* strings.Split(value, ","): the pieces between the commas; a value
\* without a comma, the empty one included, is one piece.
Split(value) ==
  LET commas == {i \in 1..Len(value) : value[i] = ","}
  IN IF commas = {} THEN <<value>>
     ELSE LET i == CHOOSE i \in commas : \A j \in commas : i <= j
          IN <<SubSeq(value, 1, i - 1)>> \o Split(SubSeq(value, i + 1, Len(value)))

\* A PendingDonationIDs that splits the value without looking at it first.
PendingDonationIDs_NoEmptyCheck(p, getOK) ==
  IF ~getOK THEN [ids |-> <<>>, err |-> "getting pending donations from SSM"]
  ELSE IF ~p.exists THEN [ids |-> <<>>, err |-> ""]
  ELSE [ids |-> Split(p.value), err |-> ""]

\* StateStore.PendingDonationIDs: a parameter that is not found, or whose
\* value is empty, is an empty list.
PendingDonationIDs(p, getOK) ==
  IF ~getOK THEN [ids |-> <<>>, err |-> "getting pending donations from SSM"]
  ELSE IF ~p.exists THEN [ids |-> <<>>, err |-> ""]
  ELSE IF p.value = <<>> THEN [ids |-> <<>>, err |-> ""]
  ELSE [ids |-> Split(p.value), err |-> ""]

\* StateStore.SetPendingDonationIDs: the parameter after the call, the error.
SetPendingDonationIDs(p, ids, putOK) ==
  IF putOK THEN [parameter |-> [exists |-> TRUE, value |-> Join(ids)], err |-> ""]
  ELSE [parameter |-> p, err |-> "putting pending donations to SSM"]

\* StateStore.RemovePendingDonationID: read, filter, write back.
StoreRemovePendingDonationID(p, id, getOK, putOK) ==
  LET read == PendingDonationIDs(p, getOK)
      remaining == RemovePendingDonationID(read.ids, id)
      put == SetPendingDonationIDs(p, remaining, putOK)
  IN IF read.err # "" THEN [parameter |-> p, err |-> "getting pending IDs"]
     ELSE put

\* The parameter is missing, is empty, or holds a list that was stored.
InitStore ==
  /\ InitService
  /\ given = NoArguments
  /\ applied = NotApplied
  /\ parameter \in {NoParameter, [exists |-> TRUE, value |-> <<>>]}
                      \cup {SetPendingDonationIDs(NoParameter, ids, TRUE).parameter :
                              ids \in IDLists}
  /\ storeCall = NoStoreCall

CallPendingDonationIDs(getOK) ==
  /\ storeCall' = [NoStoreCall EXCEPT
                     !.fn = "PendingDonationIDs",
                     !.ids = PendingDonationIDs(parameter, getOK).ids,
                     !.err = PendingDonationIDs(parameter, getOK).err]
  /\ UNCHANGED <<syncVars, tokenVars, overlapVars, given, applied, parameter>>

CallSetPendingDonationIDs(ids, putOK) ==
  /\ parameter' = SetPendingDonationIDs(parameter, ids, putOK).parameter
  /\ storeCall' = [NoStoreCall EXCEPT
                     !.fn = "SetPendingDonationIDs",
                     !.ids = ids,
                     !.err = SetPendingDonationIDs(parameter, ids, putOK).err]
  /\ UNCHANGED <<syncVars, tokenVars, overlapVars, given, applied>>

CallRemovePendingDonationID(id, getOK, putOK) ==
  /\ parameter' = StoreRemovePendingDonationID(parameter, id, getOK, putOK).parameter
  /\ storeCall' = [NoStoreCall EXCEPT
                     !.fn = "RemovePendingDonationID",
                     !.id = id,
                     !.before = PendingDonationIDs(parameter, TRUE).ids,
                     !.err = StoreRemovePendingDonationID(parameter, id, getOK,
                                                          putOK).err]
  /\ UNCHANGED <<syncVars, tokenVars, overlapVars, given, applied>>

NextStore ==
  \/ \E getOK \in BOOLEAN : CallPendingDonationIDs(getOK)
  \/ \E ids \in IDLists, putOK \in BOOLEAN : CallSetPendingDonationIDs(ids, putOK)
  \/ \E id \in IDStrings, getOK, putOK \in BOOLEAN :
       CallRemovePendingDonationID(id, getOK, putOK)

SpecStore == InitStore /\ [][NextStore]_vars

(* ----------- two invocations against one store and destination -------- *)
\* Nothing in Run, in the handler or in the state store keeps a second
\* invocation from running while the first is in its loop.  The variables of
\* the run are those of the invocation scheduled now; parked holds the
\* Service of the other one.  The stores and the destination are shared.

\* The scheduler moves from one invocation to the other.
Switch ==
  /\ parked' = [runner |-> 3 - parked.runner, pc |-> pc, runErr |-> runErr,
                fetchedSince |-> fetchedSince, fetched |-> fetched,
                envFault |-> envFault, dryRun |-> dryRun, mode |-> mode,
                todo |-> todo, giftCache |-> giftCache,
                fakeCounter |-> fakeCounter, result |-> result,
                outcome |-> outcome, call |-> call, readIDs |-> readIDs]
  /\ pc' = parked.pc
  /\ runErr' = parked.runErr
  /\ fetchedSince' = parked.fetchedSince
  /\ fetched' = parked.fetched
  /\ envFault' = parked.envFault
  /\ dryRun' = parked.dryRun
  /\ mode' = parked.mode
  /\ todo' = parked.todo
  /\ giftCache' = parked.giftCache
  /\ fakeCounter' = parked.fakeCounter
  /\ result' = parked.result
  /\ outcome' = parked.outcome
  /\ call' = parked.call
  /\ readIDs' = parked.readIDs
  /\ UNCHANGED <<constituents, gifts, pending, lastSync, fetchedAt, prevDry,
                 runs, clock>>
  /\ UNCHANGED <<tokenVars, fnVars>>

\* RemovePendingDonationID, first half: the read of the stored list.
ReadPendingToRemove ==
  /\ pc \in {"remove", "removeUnfetched"}
  /\ ~dryRun
  /\ readIDs' = pending
  /\ pc' = "removeWrite"
  /\ UNCHANGED <<constituents, gifts, pending, lastSync, runErr, fetchedSince,
                 fetched, fetchedAt, envFault, prevDry, dryRun, mode, todo,
                 giftCache, fakeCounter, result, outcome, call, runs, clock>>
  /\ UNCHANGED <<tokenVars, fnVars, parked>>

\* RemovePendingDonationID, second half: the list that was read, without the
\* id, is written back; the loop goes on to the next donation.
WriteRemainingPending ==
  /\ pc = "removeWrite"
  /\ pending' = RemovePendingDonationID(readIDs, Head(todo))
  /\ readIDs' = <<>>
  /\ todo' = Tail(todo)
  /\ pc' = IF Len(todo) = 1 THEN "finish" ELSE "loop"
  /\ UNCHANGED <<constituents, gifts, lastSync, runErr, fetchedSince, fetched,
                 fetchedAt, envFault, prevDry, dryRun, mode, giftCache,
                 fakeCounter, result, outcome, call, runs, clock>>
  /\ UNCHANGED <<tokenVars, fnVars, parked>>

\* Two real runs, no request fails.
NextOverlap ==
  \/ RunStart(FALSE, NoOverride, "none")
  \/ ProcessNext("none")
  \/ ReadPendingToRemove
  \/ WriteRemainingPending
  \/ FinishRun(TRUE)
  \/ Switch

SpecOverlap == Init /\ [][NextOverlap]_vars

(* ============================== claims ================================ *)
GiftIndexes == 1..Len(gifts)

SeriesIDs == {d.recurringPlan : d \in Donations} \ {""}

\* The gifts of a recurring series, in creation order.
SeriesGifts(r) == SelectSeq(gifts, LAMBDA g : g.lookupID = r)

\* The gifts of a series were created for strictly increasing installments
\* of one constituent.
IncreasingInstallments(G) ==
  /\ \A i, j \in 1..Len(G) :
       i < j => InstallmentNumber(DonationByID(G[i].externalID))
                  < InstallmentNumber(DonationByID(G[j].externalID))
  /\ \A i, j \in 1..Len(G) : G[i].constituentID = G[j].constituentID

Anchors(G) == {i \in 1..Len(G) : G[i].type = GiftTypeRecurringGift}

\* C1: a processDonation call, with every dependency working, on a donation
\* for which the resolved constituent already has a gift creates no gift and
\* returns skipped-existing with the id of that gift.
C1_ProcessIdempotent ==
  [][\A d \in Donations :
       (/\ outcome'.DonationID = d.id
        /\ \E i \in GiftIndexes : /\ gifts[i].externalID = d.id
                                  /\ gifts[i].constituentID = call'.constituentID
        /\ CallProcessDonation(d, "none"))
       => /\ gifts' = gifts
          /\ outcome'.GiftSkippedExisting
          /\ \E i \in GiftIndexes : /\ gifts[i].externalID = d.id
                                    /\ outcome'.GiftID = gifts[i].id]_vars

\* C2: the destination never holds two gifts created for the same donation.
C2_OneGiftPerDonation ==
  \A d \in Donations :
    Cardinality({i \in GiftIndexes : gifts[i].externalID = d.id}) <= 1

\* C3: when the gifts of a series were created in increasing installment
\* order for one constituent, exactly one of them is a RecurringGift and
\* every other is a RecurringGiftPayment linked to exactly that gift.
C3_AnchorUniqueInOrder ==
  \A r \in SeriesIDs :
    LET G == SeriesGifts(r)
    IN (Len(G) > 0 /\ IncreasingInstallments(G))
       => /\ Cardinality(Anchors(G)) = 1
          /\ \A i \in 1..Len(G) \ Anchors(G) :
               /\ G[i].type = GiftTypeRecurringGiftPayment
               /\ \A a \in Anchors(G) : G[i].linkedGifts = <<G[a].id>>

\* C4: in every state a series has at most one RecurringGift, and every
\* other gift of the series is a RecurringGiftPayment whose non-empty link
\* is the anchor's id, whatever the order of processing.
C4_AnchorUniqueAlways ==
  \A r \in SeriesIDs :
    LET G == SeriesGifts(r)
    IN /\ Cardinality(Anchors(G)) <= 1
       /\ \A i \in 1..Len(G) \ Anchors(G) :
            /\ G[i].type = GiftTypeRecurringGiftPayment
            /\ G[i].linkedGifts # <<>>
            /\ \E a \in Anchors(G) : G[i].linkedGifts[1] = G[a].id

\* C5: every RecurringGiftPayment at the destination carries exactly one
\* linked gift id, and that gift exists, belongs to the same constituent, is
\* a RecurringGift and has the same lookup id.
C5_PaymentLinksAnchor ==
  \A i \in GiftIndexes :
    gifts[i].type = GiftTypeRecurringGiftPayment
    => /\ Len(gifts[i].linkedGifts) = 1
       /\ \E a \in GiftIndexes :
            /\ gifts[a].id = gifts[i].linkedGifts[1]
            /\ gifts[a].type = GiftTypeRecurringGift
            /\ gifts[a].lookupID = gifts[i].lookupID
            /\ gifts[a].constituentID = gifts[i].constituentID

\* A payment gift has been created.
C5_Witness ==
  \E i \in GiftIndexes : gifts[i].type = GiftTypeRecurringGiftPayment

\* The constituent has a RecurringGift of the series at the destination.
HasAnchor(cid, r) ==
  \E i \in GiftIndexes : /\ gifts[i].constituentID = cid
                          /\ gifts[i].lookupID = r
                          /\ gifts[i].type = GiftTypeRecurringGift

\* C6: when processDonation reaches the recurring context of a donation with
\* installment number above 1 whose constituent has no RecurringGift of the
\* series, the context is first-in-series with no anchor id and the
\* installment number as sequence number, and the gift is mapped as the
\* RecurringGift.
C6_SelfHealing ==
  [][\A d \in Donations, f \in Faults :
       (/\ outcome'.DonationID = d.id
        /\ call'.ctxDone
        /\ IsRecurring(d)
        /\ InstallmentNumber(d) > 1
        /\ ~HasAnchor(call'.constituentID, RecurringID(d))
        /\ CallProcessDonation(d, f))
       => /\ call'.recCtx = [firstGiftID |-> 0, isFirstInSeries |-> TRUE,
                             sequenceNumber |-> InstallmentNumber(d)]
          /\ call'.gift.type = GiftTypeRecurringGift
          /\ call'.gift.linkedGifts = <<>>]_vars

\* Installment 3 of series s2 became the anchor for a constituent that only
\* has the anchor of another series.
C6_Witness ==
  /\ outcome.DonationID = "d7"
  /\ outcome.GiftCreated
  /\ call.recCtx = [firstGiftID |-> 0, isFirstInSeries |-> TRUE, sequenceNumber |-> 3]
  /\ \E i \in GiftIndexes : /\ gifts[i].id = outcome.GiftID
                            /\ gifts[i].type = GiftTypeRecurringGift
  /\ HasAnchor(call.constituentID, "s1")

C8_NoReuseInsideBuffer ==
  [][\A t \in Callers :
       /\ (tpc[t] = "idle" /\ tpc'[t] # "idle")
          => IF accessToken # 0 /\ now < expiresAt - tokenExpiryBuffer
             THEN /\ tpc'[t] = "done"
                  /\ ret'[t].token = accessToken
                  /\ ret'[t].err = ""
             ELSE /\ tpc'[t] = "wantLock"
                  /\ ret'[t].token = 0
       /\ (tpc[t] = "wantLock" /\ tpc'[t] # "wantLock")
          => IF accessToken # 0 /\ now < expiresAt - tokenExpiryBuffer
             THEN /\ tpc'[t] = "done"
                  /\ ret'[t].token = accessToken
                  /\ ret'[t].err = ""
                  /\ exchanges' = exchanges
             ELSE \/ tpc'[t] = "exchange" /\ sent'[t] = refreshToken
                  \/ tpc'[t] = "done" /\ ret'[t].err = "getting refresh token"
                                      /\ ret'[t].token = 0]_vars

\* A caller checked a non-empty token at exactly expiry minus the buffer and
\* went on to the refresh.
C8_Witness ==
  \E t \in Callers :
    /\ tpc[t] = "wantLock"
    /\ ret[t].via = "miss"
    /\ ret[t].at = now
    /\ accessToken # 0
    /\ now = expiresAt - tokenExpiryBuffer

\* C9: a token returned without error is non-empty and, at the moment of the
\* return, the time is before its expiry minus the buffer.
C9_ReturnedTokenValid ==
  \A t \in Callers :
    (tpc[t] = "done" /\ ret[t].err = "")
    => /\ ret[t].token # 0
       /\ ret[t].at < ret[t].exp - tokenExpiryBuffer

\* C10: when the read of the refresh token fails, or the token request ends
\* in a transport error, a status other than 200 or an undecodable body,
\* the caller gets an error and no token, and the cached token and expiry
\* are what they were.
C10_FailureLeavesCache ==
  [][\A t \in Callers :
       /\ (/\ tpc[t] = "wantLock"
           /\ ~(accessToken # 0 /\ now < expiresAt - tokenExpiryBuffer)
           /\ LockAndRead(t, FALSE))
          => /\ tpc'[t] = "done"
             /\ ret'[t].err # ""
             /\ ret'[t].token = 0
             /\ accessToken' = accessToken
             /\ expiresAt' = expiresAt
       /\ \A resp \in Responses, saveOK \in BOOLEAN :
            (/\ tpc[t] = "exchange"
             /\ resp.kind # "ok"
             /\ Exchange(t, resp, saveOK))
            => /\ tpc'[t] = "done"
               /\ ret'[t].err # ""
               /\ ret'[t].token = 0
               /\ accessToken' = accessToken
               /\ expiresAt' = expiresAt]_vars

\* A refresh failed on the status while an expired token sat in the cache:
\* the caller got the error and the cache still holds the old token.
C10_Witness ==
  \E t \in Callers :
    /\ tpc[t] = "done"
    /\ ret[t].err = "token refresh failed"
    /\ ret[t].token = 0
    /\ ret[t].at = now
    /\ accessToken # 0
    /\ ~(now < expiresAt - tokenExpiryBuffer)

\* C11: when the token endpoint answers with a token response,
\* SaveRefreshToken is called exactly when the response carries a non-empty
\* refresh token different from the one sent, with that token; when the
\* returned refresh token is empty or unchanged there is no call and the
\* credential store keeps its value.
C11_SaveOnlyRotatedToken ==
  [][\A t \in Callers, resp \in Responses, saveOK \in BOOLEAN :
       (/\ tpc[t] = "exchange"
        /\ resp.kind = "ok"
        /\ Exchange(t, resp, saveOK))
       => LET rt == ResponseRefreshToken(resp, sent[t])
          IN IF rt # 0 /\ rt # sent[t]
             THEN /\ saved'[t] = rt
                  /\ saveOK => refreshToken' = rt
             ELSE /\ saved'[t] = 0
                  /\ refreshToken' = refreshToken]_vars

\* An exchange returned a rotated refresh token and it was saved: the store
\* holds a token other than the one that was sent.
C11_Witness ==
  \E t \in Callers :
    /\ tpc[t] = "done"
    /\ ret[t].via = "refresh"
    /\ ret[t].err = ""
    /\ saved[t] # 0
    /\ saved[t] # sent[t]
    /\ refreshToken = saved[t]

\* C12: the persisted pending list never holds more entries than the
\* configured maximum (300 when the configured value is not positive), and
\* neither does the list a fresh run hands to SetPendingDonationIDs, whatever
\* the time it fetches from.
C12_CheckpointBound ==
  /\ Len(pending) <= (IF cfgMaxDonationsPerRun <= 0 THEN defaultMaxDonationsPerRun
                      ELSE cfgMaxDonationsPerRun)
  /\ \A since \in defaultSyncStart..MaxClock :
       Len(IDs(Truncate(FetchSince(since))))
         <= (IF cfgMaxDonationsPerRun <= 0 THEN defaultMaxDonationsPerRun
             ELSE cfgMaxDonationsPerRun)

\* A fresh run fetched more donations than the maximum and stored a pending
\* list of exactly the maximum length.
C12_Witness ==
  /\ mode = "fresh"
  /\ ~dryRun
  /\ pc = "loop"
  /\ Len(FetchSince(defaultSyncStart)) > maxDonationsPerRun
  /\ Len(pending) = maxDonationsPerRun
  /\ pending = todo

\* C13: Run first reads the pending list.  If the read fails Run returns the
\* error and nothing is fetched, processed or written.  If the list is
\* non-empty the run resumes: it works through exactly that list, donation by
\* donation, never calls the since-based fetch and only ever rewrites the
\* pending list as itself minus the id just handled.  If the list is empty
\* the run is a fresh one.
C13_PendingDecidesMode ==
  [][/\ \A dry \in BOOLEAN, so \in {NoOverride, 0}, sf \in StoreFaults :
          RunStart(dry, so, sf)
          => IF sf = "readPending"
             THEN /\ runErr' # ""
                  /\ pc' = "idle"
                  /\ ~fetchedSince'
                  /\ result' = ZeroResult
                  /\ UNCHANGED <<constituents, gifts, pending, lastSync>>
             ELSE IF Len(pending) > 0
             THEN /\ mode' = "resume"
                  /\ pc' = "loop"
                  /\ todo' = pending
                  /\ pending' = pending
                  /\ ~fetchedSince'
                  /\ runErr' = ""
             ELSE mode' = "fresh"
     /\ (mode = "resume" /\ pc \in {"loop", "remove", "removeUnfetched"}
           /\ pc' # "idle")
          => /\ ~fetchedSince'
             /\ \/ pending' = pending
                \/ pending' = RemovePendingDonationID(pending, Head(todo))
             /\ (pc = "loop" /\ result'.DonationsProcessed # result.DonationsProcessed)
                  => outcome'.DonationID = Head(todo)]_vars

\* A resumed run is working through a pending list left by an earlier run,
\* and has handled its first donation.
C13_Witness ==
  /\ mode = "resume"
  /\ pc = "loop"
  /\ runs = 2
  /\ ~fetchedSince
  /\ result.DonationsProcessed = 1
  /\ Len(pending) > 0
  /\ pending = todo

\* C14: in a fresh run that is not a dry run, a batch is in the stored
\* pending list before its first donation is processed, and every donation
\* the loop works on is in the stored list at that moment; if the write of
\* the list fails, Run returns the error, nothing is processed and the
\* destination is not written.
C14_CheckpointBeforeProcessing ==
  [][/\ \A so \in {NoOverride, 0}, sf \in StoreFaults :
          (/\ Len(pending) = 0
           /\ sf \in {"none", "setPending"}
           /\ Len(FetchSince(syncSince(so))) > 0
           /\ RunStart(FALSE, so, sf))
          => IF sf = "setPending"
             THEN /\ runErr' # ""
                  /\ pc' = "idle"
                  /\ result' = ZeroResult
                  /\ UNCHANGED <<constituents, gifts, pending, lastSync>>
             ELSE /\ pc' = "loop"
                  /\ runErr' = ""
                  /\ pending' = IDs(Truncate(FetchSince(syncSince(so))))
                  /\ todo' = pending'
                  /\ UNCHANGED <<constituents, gifts>>
     /\ \A f \in Faults :
          (/\ mode = "fresh" /\ ~dryRun
           /\ ProcessNext(f))
          => /\ \E i \in 1..Len(pending) : pending[i] = Head(todo)
             /\ result.DonationsProcessed = 0 => pending = todo]_vars

\* A fresh run stored its batch and nothing has been processed yet.
C14_Witness ==
  /\ mode = "fresh"
  /\ ~dryRun
  /\ pc = "loop"
  /\ result.DonationsProcessed = 0
  /\ Len(todo) > 1
  /\ pending = todo
  /\ gifts = <<>>

\* C15: in a run that is not a dry run, whenever the loop is about to touch
\* the next donation, the ids of all donations handled before it have been
\* removed: the stored pending list is the batch's id list without the
\* entries already handled; and when the loop is over the list is empty.
C15_PendingIsRemainder ==
  ~dryRun =>
    /\ pc = "loop" => pending = todo
    /\ pc = "finish" => pending = <<>>

\* C16: when a run that is not a dry run stops between two donations of its
\* batch, the stored pending list is exactly the ids not yet handled and the
\* sync time is what it was; the next run then resumes with that list.
C16_CancelLeavesRemainder ==
  [][/\ (pc = "loop" /\ ~dryRun /\ Interrupt)
          => /\ pending' = todo
             /\ Len(pending') > 0
             /\ lastSync' = lastSync
     /\ \A dry \in BOOLEAN, so \in {NoOverride, 0} :
          (Len(pending) > 0 /\ RunStart(dry, so, "none"))
          => /\ mode' = "resume"
             /\ todo' = pending]_vars

C18_CompletionClearsCheckpoint ==
  [][\A setOK \in BOOLEAN :
       (~dryRun /\ FinishRun(setOK) /\ runErr' = "")
       => /\ lastSync' = clock
          /\ pending' = <<>>]_vars

\* C19: a failure to write the pending list, to remove an id from it or to
\* write the sync time ends the run at once with a run-level error.
C19_CheckpointErrorFatal ==
  [][/\ \A so \in {NoOverride, 0} :
          (/\ Len(pending) = 0
           /\ Len(FetchSince(syncSince(so))) > 0
           /\ RunStart(FALSE, so, "setPending"))
          => runErr' # "" /\ pc' = "idle"
     /\ (~dryRun /\ RemovePending(FALSE))
          => runErr' # "" /\ pc' = "idle"
     /\ (~dryRun /\ FinishRun(FALSE))
          => runErr' # "" /\ pc' = "idle"]_vars

\* C20: when the destination client cannot obtain an access token while a
\* donation is processed, the run ends at once with a run-level error, the
\* pending list and the sync time being left as they are.
C20_AuthErrorFatal ==
  [][(ProcessNext("auth") /\ outcome'.Error # "")
       => /\ runErr' # ""
          /\ pc' = "idle"
          /\ pending' = pending
          /\ lastSync' = lastSync]_vars

\* C21: an error of processDonation, at whatever stage, is recorded once in
\* the result (one more error, one more donation processed) and does not end
\* the run: the run-level error stays nil, the loop goes on to the removal of
\* that donation and then to the next donation of the batch, in order, and a
\* run whose loop has ended returns a nil error unless the write of the sync
\* time fails.
C21_ErrorsDoNotAbort ==
  [][/\ (pc = "loop" /\ pc' = "remove")
          => /\ outcome'.DonationID = Head(todo)
             /\ todo' = todo
             /\ runErr' = ""
             /\ result'.DonationsProcessed = result.DonationsProcessed + 1
             /\ result'.Errors
                  = result.Errors + (IF outcome'.Error # "" THEN 1 ELSE 0)
     /\ (pc = "remove" /\ pc' \in {"loop", "finish"})
          => /\ todo' = Tail(todo)
             /\ pc' = (IF Len(todo) > 1 THEN "loop" ELSE "finish")
             /\ runErr' = ""
     /\ (pc = "finish" /\ pc' = "idle" /\ runErr' # "")
          => /\ runErr' = "updating last sync time"
             /\ ~dryRun
             /\ result' = result
    ]_vars

\* A run completed although one of its first two donations failed: the
\* third donation was processed and produced a gift, the error is counted
\* and the run returned no error.
C21_Witness ==
  /\ pc = "idle" /\ runs >= 1 /\ runErr = ""
  /\ result.DonationsProcessed = 3
  /\ result.Errors >= 1
  /\ outcome.GiftCreated
  /\ ~dryRun /\ lastSync = clock /\ pending = <<>>

\* C23: no step of a dry run, fresh or resumed, from its start to its end,
\* changes the stored pending list or the stored sync time.
C23_DryRunKeepsCheckpoint ==
  [][(IF pc = "idle" THEN runs' # runs /\ dryRun' ELSE dryRun)
       => UNCHANGED <<pending, lastSync>>]_vars

\* A resumed dry run has handled every pending donation, and the pending
\* list is still stored.
C23_Witness ==
  /\ pc = "finish" /\ dryRun /\ mode = "resume"
  /\ Len(pending) >= 2
  /\ result.DonationsProcessed >= 2

\* C25: in a real run, a donation whose donor has a non-empty email that a
\* constituent already carries creates no constituent and resolves to the
\* first match of the search with created = false; a constituent is created
\* only when the email is empty or the search found nothing; so no two
\* constituents ever share a non-empty email.
C25_OneConstituentPerEmail ==
  [][(pc = "loop" /\ pc' = "remove" /\ ~dryRun)
       => LET d == DonationByID(Head(todo))
              existing == SearchConstituents(d.email)
          IN /\ (d.email # "" /\ Len(existing) > 0)
                  => /\ constituents' = constituents
                     /\ ~outcome'.ConstituentCreated
                     /\ outcome'.Error # "finding/creating constituent"
                          => call'.constituentID = existing[1].id
             /\ Len(constituents') > Len(constituents)
                  => /\ d.email = "" \/ Len(existing) = 0
                     /\ Len(constituents') = Len(constituents) + 1
                     /\ outcome'.ConstituentCreated
             /\ \A i, j \in 1..Len(constituents') :
                  (constituents'[i].email = constituents'[j].email
                     /\ constituents'[i].email # "") => i = j
    ]_vars

\* The second donation of a donor with an email has been processed in a real
\* run: it resolved to the constituent created for the first one.
C25_Witness ==
  /\ pc = "remove" /\ ~dryRun
  /\ outcome.DonationID = "d3" /\ outcome.Error = ""
  /\ ~outcome.ConstituentCreated
  /\ result.ConstituentsCreated >= 1
  /\ call.constituentID = SearchConstituents("a@x")[1].id

\* C28: a fresh run whose fetch returned more than maxDonationsPerRun
\* donations takes exactly the first maxDonationsPerRun of them, in fetch
\* order, as its batch, and one that fetched no more than that takes them
\* all; a real run stores that batch as the pending list; the loop processes
\* the batch from its head, one donation after the other; and a fresh run
\* that fetched nothing writes neither the pending list nor the sync time and
\* returns.
C28_FirstNInFetchOrder ==
  [][/\ (pc = "idle" /\ runs' # runs /\ mode' = "fresh" /\ fetchedSince'
           /\ runErr' = "")
          => /\ Len(fetched') > maxDonationsPerRun
                  => todo' = SubSeq(fetched', 1, maxDonationsPerRun)
             /\ Len(fetched') <= maxDonationsPerRun => todo' = fetched'
             /\ Len(fetched') > 0
                  => /\ pc' = "loop"
                     /\ pending' = (IF dryRun' THEN pending ELSE todo')
             /\ Len(fetched') = 0
                  => /\ pc' = "idle"
                     /\ UNCHANGED <<pending, lastSync>>
     /\ (pc = "loop" /\ pc' = "remove" /\ mode = "fresh")
          => /\ outcome'.DonationID = Head(todo)
             /\ result'.DonationsProcessed = result.DonationsProcessed + 1
     /\ (pc = "remove" /\ pc' \in {"loop", "finish"} /\ mode = "fresh")
          => /\ todo' = Tail(todo)
             /\ (pc' = "finish") = (Len(todo) = 1)
    ]_vars

\* A fresh run whose fetch returned five donations has processed exactly the
\* first three of them and is at the end of its loop.
C28_Witness ==
  /\ pc = "finish" /\ mode = "fresh" /\ ~dryRun
  /\ Len(fetched) > maxDonationsPerRun
  /\ result.DonationsProcessed = maxDonationsPerRun
  /\ outcome.DonationID = fetched[maxDonationsPerRun]

\* C26: a fresh run that advances the stored sync time leaves no donation of
\* its fetch behind it: every donation the fetch returned that was created at
\* or before the new sync time was in the batch the run processed, so the
\* donations cut off by the limit are still after the sync time and a later
\* run fetches them.
C26_TruncatedFetchedLater ==
  [][(pc = "finish" /\ pc' = "idle" /\ mode = "fresh" /\ lastSync' # lastSync)
       => \A i \in 1..Len(fetched) :
            DonationByID(fetched[i]).createdAt <= lastSync'
              => i <= maxDonationsPerRun]_vars

\* C22: no step of a dry run changes the constituents or the gifts of the
\* destination; and a dry run in which no request failed for an outside
\* reason, run on the same batch and against the same destination as the
\* previous such dry run, ends with the same Result (all counters and the
\* number of errors).
C22_DryRunNoWritesSameSummary ==
  [][/\ (IF pc = "idle" THEN runs' # runs /\ dryRun' ELSE dryRun)
          => UNCHANGED <<constituents, gifts>>
     /\ (pc = "finish" /\ dryRun /\ ~envFault /\ prevDry.valid
           /\ prevDry.batch = batchOfRun
           /\ prevDry.dest = <<Len(constituents), Len(gifts)>>)
          => result = prevDry.result
    ]_vars

\* The second of two dry runs on the same three donations is at its end, and
\* a dry run has created three constituents and three gifts in name only.
C22_Witness ==
  /\ pc = "finish" /\ dryRun /\ ~envFault /\ runs = 2
  /\ prevDry.valid /\ prevDry.batch = batchOfRun
  /\ Len(batchOfRun) = 3
  /\ result.GiftsCreated = 3 /\ result.ConstituentsCreated = 3
  /\ constituents = <<>> /\ gifts = <<>>

\* C24: every donation processed in a real run moves the counters of the
\* Result by what happened at the destination: ConstituentsCreated by the
\* number of constituents created, ConstituentsExisting by one exactly when
\* the donation resolved to a constituent that already existed, GiftsCreated
\* by the number of gifts created and GiftsSkippedExisting by one exactly
\* when the donation was skipped as a duplicate; also when the donation
\* fails at a later stage.
C24_CountsMatchDestination ==
  [][(pc = "loop" /\ pc' = "remove" /\ ~dryRun)
       => /\ result'.ConstituentsCreated - result.ConstituentsCreated
               = Len(constituents') - Len(constituents)
          /\ result'.ConstituentsExisting - result.ConstituentsExisting
               = (IF call'.constituentID # 0 /\ constituents' = constituents
                  THEN 1 ELSE 0)
          /\ result'.GiftsCreated - result.GiftsCreated
               = Len(gifts') - Len(gifts)
          /\ result'.GiftsSkippedExisting - result.GiftsSkippedExisting
               = (IF outcome'.GiftSkippedExisting THEN 1 ELSE 0)
    ]_vars

\* C27: when the duplicate check of processDonation finds a gift, the call
\* ends there: the result says skipped-existing with the id of the gift
\* found, no error, nothing created and nothing updated; the destination is
\* left as it was, the recurring context is not looked up and no gift is
\* mapped.
C27_DuplicateIsTerminal ==
  [][\A d \in Donations, f \in Faults :
       LET c == findOrCreateConstituent(d, f)
           l == getConstituentGifts(giftCache, c.id, f)
           existingGift == findExistingGift(l.gifts, d)
       IN (c.err = "" /\ l.err = "" /\ existingGift # NoGift
             /\ CallProcessDonation(d, f))
            => /\ outcome'.GiftSkippedExisting
               /\ outcome'.GiftID = existingGift.id
               /\ outcome'.Error = ""
               /\ ~outcome'.GiftCreated /\ ~outcome'.GiftUpdated
               /\ UNCHANGED <<gifts, constituents, fakeCounter>>
               /\ ~call'.ctxDone
               /\ call'.gift = NoGift
    ]_vars

\* A recurring donation was processed a second time by a new Service: the
\* call found the gift of the first call and returned its id.
C27_Witness ==
  /\ outcome.DonationID = "d3"
  /\ outcome.GiftSkippedExisting /\ outcome.GiftID # 0 /\ outcome.Error = ""
  /\ \E i \in 1..Len(gifts) :
       /\ gifts[i].id = outcome.GiftID
       /\ gifts[i].externalID = "d3"
  /\ call.listed /\ ~call.ctxDone

\* C29: findExistingGift returns, for a non-recurring donation, the first
\* gift of the list whose lookup id is the donation id, and for a recurring
\* donation the first gift whose lookup id is the series id and whose origin
\* is a JSON object with donation_id equal to the donation id (a gift of the
\* series with another, an empty or an undecodable origin does not count);
\* it returns nil when no gift matches, and never an error.
C29_DuplicateMatching ==
  applied.fn = "findExistingGift"
    => LET d == DonationByID(applied.donation)
           list == given.gifts
           matches(g) ==
             IF IsRecurring(d) /\ RecurringID(d) # ""
             THEN /\ g.lookupID = RecurringID(d)
                  /\ Len(g.origin) = 4
                  /\ g.origin[1] = "donation_id"
                  /\ g.origin[2] = d.id
             ELSE g.lookupID = d.id
           M == {i \in 1..Len(list) : matches(list[i])}
       IN /\ applied.err = ""
          /\ M = {} => applied.gift = NoGift
          /\ M # {} => \E i \in M : /\ \A j \in M : i <= j
                                    /\ applied.gift = list[i]

\* The list holds two gifts of the series, the first with the origin of
\* another donation: the call for d3 returned the second.
C29_Witness ==
  /\ applied.fn = "findExistingGift" /\ applied.donation = "d3"
  /\ Len(given.gifts) = 2
  /\ given.gifts[1].lookupID = "s1"
  /\ given.gifts[1].origin = OriginString([DonationID |-> "d2", Name |-> originName])
  /\ applied.gift = given.gifts[2]

C31_ListOncePerConstituent ==
  [][(pc = "loop" /\ pc' = "remove"
        /\ outcome'.Error # "finding/creating constituent")
       => LET cid == call'.constituentID
          IN /\ cid \in DOMAIN giftCache
                  => /\ call'.remoteLists = 0
                     /\ giftCache' = giftCache
                     /\ outcome'.Error # "checking for existing gift"
             /\ cid \notin DOMAIN giftCache
                  => /\ call'.remoteLists = 1
                     /\ IF outcome'.Error = "checking for existing gift"
                        THEN giftCache' = giftCache
                        ELSE /\ DOMAIN giftCache' = DOMAIN giftCache \cup {cid}
                             /\ giftCache'[cid] = ListGiftsByConstituent(cid)
             /\ \A k \in DOMAIN giftCache :
                  k \in DOMAIN giftCache' /\ giftCache'[k] = giftCache[k]
    ]_vars

\* The second donation of a donor was processed in a run that had already
\* listed the gifts of two constituents: its duplicate check and its anchor
\* lookup were answered from the cache.
C31_Witness ==
  /\ pc = "remove" /\ outcome.DonationID = "d3" /\ outcome.Error = ""
  /\ call.listed /\ call.ctxDone
  /\ call.remoteLists = 0
  /\ Cardinality(DOMAIN giftCache) = 2
  /\ call.constituentID \in DOMAIN giftCache

\* C32: processDonation of a donation without a supporter, whatever fails at
\* the destination, returns the error of the constituent stage, caused by
\* "donation has no supporter" and not by a search or a creation; it creates
\* no constituent (the dry-run client's counter does not move either) and no
\* gift, and it does not ask for any gift list.
C32_NoSupporterFails ==
  [][\A d \in Donations, f \in Faults :
       (~d.hasSupporter /\ CallProcessDonation(d, f))
         => /\ outcome'.DonationID = d.id
            /\ outcome'.Error = "finding/creating constituent"
            /\ call'.constituentErr = "donation has no supporter"
            /\ ~outcome'.GiftCreated /\ ~outcome'.GiftSkippedExisting
            /\ ~outcome'.ConstituentCreated
            /\ outcome'.GiftID = 0
            /\ UNCHANGED <<constituents, gifts, fakeCounter, giftCache>>
            /\ ~call'.listed /\ call'.remoteLists = 0
    ]_vars

\* The donation without a supporter was processed by a Service whose
\* destination already holds a constituent and a gift.
C32_Witness ==
  /\ outcome.DonationID = "d5"
  /\ outcome.Error = "finding/creating constituent"
  /\ call.constituentErr = "donation has no supporter"
  /\ Len(constituents) >= 1 /\ Len(gifts) >= 1

\* How many of the three endings a DonationResult shows.
Endings(o) ==
  (IF o.Error # "" THEN 1 ELSE 0) + (IF o.GiftCreated THEN 1 ELSE 0)
    + (IF o.GiftSkippedExisting THEN 1 ELSE 0)

\* C33: wherever a run calls it, for every donation and every fault,
\* processDonation returns a result
\* with exactly one of: an error, a gift created, a gift skipped as existing,
\* and never with GiftUpdated; every donation processed in a run adds one to
\* DonationsProcessed and one to the sum of GiftsCreated,
\* GiftsSkippedExisting and errors, and adds to the two constituent counters
\* together what it adds to the two gift counters together, while a donation
\* that could not be fetched in a resumed run adds only its fetch error; so
\* in every run ConstituentsCreated + ConstituentsExisting = GiftsCreated +
\* GiftsSkippedExisting, GiftsUpdated = 0, and DonationsProcessed =
\* GiftsCreated + GiftsSkippedExisting + the errors of processDonation (all
\* the errors of a fresh run).
C33_OutcomeWellFormed ==
  [][/\ (pc = "loop" /\ pc' = "remove")
          => /\ Endings(outcome') = 1
             /\ \A d \in Donations, f \in Faults :
                  LET o == processDonation(d, f).outcome
                  IN Endings(o) = 1 /\ ~o.GiftUpdated /\ o.DonationID = d.id
             /\ result'.DonationsProcessed = result.DonationsProcessed + 1
             /\ result'.GiftsCreated + result'.GiftsSkippedExisting + result'.Errors
                  = result.GiftsCreated + result.GiftsSkippedExisting
                      + result.Errors + 1
     /\ (pc = "loop" /\ pc' = "removeUnfetched")
          => /\ result'.Errors = result.Errors + 1
             /\ result' = [result EXCEPT !.Errors = @ + 1]
     /\ result.ConstituentsCreated + result.ConstituentsExisting
          = result.GiftsCreated + result.GiftsSkippedExisting
     /\ result.GiftsUpdated = 0
     /\ result.DonationsProcessed
          <= result.GiftsCreated + result.GiftsSkippedExisting + result.Errors
     /\ mode = "fresh"
          => result.DonationsProcessed
               = result.GiftsCreated + result.GiftsSkippedExisting + result.Errors
    ]_vars

\* A real run has ended after three donations: one failed, one created a
\* gift and one was skipped as a duplicate.
C33_Witness ==
  /\ pc = "finish" /\ ~dryRun
  /\ result.DonationsProcessed = 3
  /\ result.Errors = 1
  /\ result.GiftsCreated = 1
  /\ result.GiftsSkippedExisting = 1

\* C34: after a RemovePendingDonationID that returned no error, the stored
\* parameter exists and reads back as the list read before the call without
\* any occurrence of the given id, the other ids in the order they had; if
\* the id was not in the list, it reads back as the same list; and a
\* parameter that is missing or whose value is empty reads as the empty list
\* without error.
C34_RemoveRewritesList ==
  /\ (storeCall.fn = "RemovePendingDonationID" /\ storeCall.err = "")
       => LET before == storeCall.before
              after == PendingDonationIDs(parameter, TRUE).ids
              keep == {i \in 1..Len(before) : before[i] # storeCall.id}
              nth(k) == CHOOSE i \in keep : Cardinality({j \in keep : j <= i}) = k
          IN /\ parameter.exists
             /\ PendingDonationIDs(parameter, TRUE).err = ""
             /\ Len(after) = Cardinality(keep)
             /\ \A k \in 1..Len(after) : after[k] = before[nth(k)]
             /\ \A k \in 1..Len(after) : after[k] # storeCall.id
             /\ keep = 1..Len(before) => after = before
  /\ (~parameter.exists \/ parameter.value = <<>>)
       => PendingDonationIDs(parameter, TRUE) = [ids |-> <<>>, err |-> ""]
  /\ (storeCall.fn = "PendingDonationIDs" /\ storeCall.err = ""
        /\ (~parameter.exists \/ parameter.value = <<>>))
       => storeCall.ids = <<>>

\* An id that stood twice in a stored list of three was removed: the list
\* now holds the third id alone.
C34_Witness ==
  /\ storeCall.fn = "RemovePendingDonationID" /\ storeCall.err = ""
  /\ Len(storeCall.before) = 3
  /\ storeCall.before[1] = storeCall.id /\ storeCall.before[3] = storeCall.id
  /\ storeCall.before[2] # storeCall.id
  /\ PendingDonationIDs(parameter, TRUE).ids = <<storeCall.before[2]>>

\* C35: whenever a run advances the stored sync time, the new sync time is
\* not after the instant at which the batch it completes was fetched, so a
\* donation created after that fetch is created after the sync time and a
\* later fresh run fetches it.
C35_SyncTimeNotPastFetch ==
  [][lastSync' # lastSync
       => /\ lastSync' <= fetchedAt
          /\ \A i \in 1..Len(Catalog) :
               Catalog[i].createdAt > fetchedAt
                 => Catalog[i].createdAt > lastSync']_vars

\* C36: a real fresh run that advances the sync time leaves no donation of
\* its batch without a gift behind the new sync time unless the donation is
\* still pending or its amount is invalid: a donation that failed for a
\* reason at the destination can still be reached by a later run.
C36_FailedDonationNotLost ==
  [][(pc = "finish" /\ pc' = "idle" /\ mode = "fresh" /\ ~dryRun
        /\ lastSync' # lastSync)
       => \A i \in 1..Len(Truncate(fetched)) :
            LET d == DonationByID(Truncate(fetched)[i])
            IN (~ParseFloat(d.Amount).err /\ d.createdAt <= lastSync')
                 => \/ \E g \in 1..Len(gifts') : gifts'[g].externalID = d.id
                    \/ \E k \in 1..Len(pending') : pending'[k] = d.id]_vars

\* C37: at most one caller is between the read of the refresh token and the
\* write of the cache; that caller holds the write lock and the token it
\* sends is the one the store holds; and while it is there no other caller
\* reads the refresh token or reaches the token request (a caller waiting for
\* the lock stays waiting), and the store, the cache and the count of token
\* requests change only by its own step.
C37_OneExchangeInFlight ==
  [][/\ Cardinality({t \in Callers : tpc'[t] = "exchange"}) <= 1
     /\ \A t \in Callers :
          tpc'[t] = "exchange" => mu' = t /\ sent'[t] = refreshToken'
     /\ \A t \in Callers :
          tpc[t] = "exchange"
            => /\ \A u \in Callers \ {t} :
                    /\ tpc'[u] # "exchange"
                    /\ tpc[u] = "wantLock" => tpc'[u] = "wantLock"
                    /\ sent'[u] # sent[u] => tpc[u] = "done"
               /\ tpc'[t] = "exchange"
                    => UNCHANGED <<refreshToken, accessToken, expiresAt, exchanges>>
    ]_vars

\* One caller has read the refresh token and is at the token request while
\* the other, which missed the cache too, waits for the lock.
C37_Witness ==
  \E t, u \in Callers :
    /\ t # u
    /\ tpc[t] = "exchange" /\ mu = t /\ sent[t] = refreshToken
    /\ tpc[u] = "wantLock" /\ sent[u] = 0

\* C38: when the token endpoint answers with a token response whose refresh
\* token is rotated and SaveRefreshToken fails, the caller gets the error
\* "saving refresh token" and no token, the cached token and expiry and the
\* stored refresh token are what they were, and the cache is not valid
\* afterwards, so the next AccessToken call goes to a new exchange; and a
\* refresh that does put a token in the cache and return it has persisted
\* the rotated refresh token, if there was one.
C38_NoTokenBeforeSave ==
  [][\A t \in Callers, resp \in Responses, saveOK \in BOOLEAN :
       (/\ tpc[t] = "exchange"
        /\ resp.kind = "ok"
        /\ savesRefreshToken(resp, sent[t])
        /\ Exchange(t, resp, saveOK))
       => IF saveOK
          THEN /\ refreshToken' = ResponseRefreshToken(resp, sent[t])
               /\ ret'[t].err = ""
               /\ ret'[t].token = accessToken'
          ELSE /\ tpc'[t] = "done"
               /\ ret'[t].err = "saving refresh token"
               /\ ret'[t].token = 0
               /\ UNCHANGED <<accessToken, expiresAt, refreshToken>>
               /\ ~isTokenValid']_vars

\* The save of a rotated refresh token failed after a token response: the
\* caller holds the error, the store still holds the token that was sent,
\* and the cache is not valid.
C38_Witness ==
  \E t \in Callers :
    /\ tpc[t] = "done"
    /\ ret[t].err = "saving refresh token"
    /\ ret[t].at = now
    /\ saved[t] # 0
    /\ refreshToken = sent[t]
    /\ ~isTokenValid

\* C39: with two real runs against one state store and one destination, the
\* second started while the first is in its loop, no donation ever has two
\* gifts, and a run's removal of an id from the pending list changes the
\* stored list by exactly that id: it brings back no id another run has
\* removed and drops no id another run has written.
C39_OverlapSafe ==
  [][/\ \A d \in Donations :
          Cardinality({i \in 1..Len(gifts') : gifts'[i].externalID = d.id}) <= 1
     /\ (pc = "removeWrite" /\ pc' # "removeWrite" /\ parked' = parked)
          => pending' = RemovePendingDonationID(pending, Head(todo))]_vars

====
